---- MODULE Spec2Model ----
(***************************************************************************)
(* State-machine model of the OpenAI image command plugin:                *)
(*   src/utils/ttp.py  ImageGeneratorState, cleanup_old_images,           *)
(*                     save_base64_image, generate_image_openai           *)
(*                                                                         *)
(* Scheduling: one asyncio event loop.  A coroutine runs without          *)
(* interruption from one suspension to the next, so each action below is  *)
(* the code between two suspensions.  The suspensions of                  *)
(* generate_image_openai are asyncio.sleep, session.post/response.json,   *)
(* session.get and the aiofiles writes.  ImageGeneratorState._lock is     *)
(* only ever held over code without a suspension, so it is free whenever  *)
(* it is acquired, and the four state methods run inside the step of      *)
(* their caller.                                                           *)
(*                                                                         *)
(* src/main.py       MyPlugin._normalize_api_keys and the key list the    *)
(*                     plugin holds                                        *)
(*                                                                         *)
(* Text is a sequence of atoms (short strings); " " is whitespace.        *)
(* None is the empty tuple.                                                *)
(***************************************************************************)
EXTENDS Integers, Sequences, FiniteSets, TLC

VARIABLES
    api_key_index,      \* ImageGeneratorState.api_key_index (the shared cursor)
    last_saved_image,   \* ImageGeneratorState.last_saved_image {"url", "path"}
    files,              \* the files of <plugin-root>/images
    now,                \* datetime.now(), in minutes
    calls,              \* one record per generate_image_openai coroutine
    rot,                \* the caller of a direct use of the key rotator
    lock,               \* ImageGeneratorState._lock: "free" or its holder
    th,                 \* the coroutines that use the key rotator concurrently
    sweep,              \* the last direct call of cleanup_old_images
    plugin,             \* MyPlugin: the configured value and openai_api_keys
    cmds,               \* one record per command handler of MyPlugin
    rate                \* MyPlugin._rate_limit_state: group id -> (start, count)

vars == <<api_key_index, last_saved_image, files, now, calls, rot, lock, th, sweep,
          plugin, cmds, rate>>

(* ------------------------------ bounds -------------------------------- *)

\* largest max_retry_attempts a call is started with
MaxRetry == 2
\* number of direct rotate_to_next_api_key calls in one behaviour
MaxRotations == 6
\* largest api_key_index a direct use of the rotator starts from
MaxCursor == 3
\* longest openai_api_key string of the configuration, in atoms
MaxKeyText == 4
\* longest openai_api_key list of the configuration
MaxKeyItems == 3
\* longest message content string, in chunks (see TextChunks)
MaxChunks == 3
\* longest message content list
MaxItems == 2
\* latest time of a direct cleanup_old_images call, in minutes
MaxMinutes == 17
\* largest rate_limit_max_calls_per_group of the configuration
MaxCalls == 2
\* latest time.time() of a command, in seconds
MaxClock == 4
\* largest max_retry_attempts of a call whose attempts all fail
MaxBackoff == 6

\* the concurrent generation calls
Calls == {"c1", "c2"}

None == <<>>

(* ------------------------------- text --------------------------------- *)

IsSpace(ch) == ch = " "

RECURSIVE lstrip(_)
lstrip(s) == IF s # <<>> /\ IsSpace(Head(s)) THEN lstrip(Tail(s)) ELSE s

RECURSIVE rstrip(_)
rstrip(s) ==
    IF s # <<>> /\ IsSpace(s[Len(s)]) THEN rstrip(SubSeq(s, 1, Len(s) - 1)) ELSE s

\* str.strip()
strip(s) == rstrip(lstrip(s))

\* all sequences over S of length at most n
SeqUpTo(S, n) == UNION {[1..k -> S] : k \in 0..n}

(* A Python value given as api_key: None, a str, or a list whose elements *)
(* are None, str or int (s holds the characters of a str, the digits of   *)
(* an int).                                                                *)
PyNone == [t |-> "None", s |-> <<>>, items |-> <<>>]
PyStr(s) == [t |-> "str", s |-> s, items |-> <<>>]
PyInt(digits) == [t |-> "int", s |-> digits, items |-> <<>>]
PyList(items) == [t |-> "list", s |-> <<>>, items |-> items]

\* str(x)
str(x) == IF x.t = "None" THEN <<"None">> ELSE x.s

\* bool(x) for None, str and list
truthy(x) ==
    CASE x.t = "None" -> FALSE
      [] x.t = "list" -> x.items # <<>>
      [] OTHER -> x.s # <<>>

(* --------------------------- key rotation ----------------------------- *)

\* lines 224-229: the api_key argument as a list of keys
NormalizeKeyArg(api_key) ==
    IF api_key.t = "list"
    THEN SelectSeq([i \in 1..Len(api_key.items) |-> strip(str(api_key.items[i]))],
                   LAMBDA k : k # <<>>)
    ELSE IF truthy(api_key) THEN <<strip(str(api_key))>>
    ELSE <<>>

\* line 231: `if not api_keys`
NoKeysMutant(api_keys) == FALSE

NoKeys(api_keys) == api_keys = <<>>

\* ImageGeneratorState.get_next_api_key: the key, or the exception raised
get_next_api_key(api_keys, index) ==
    IF api_keys = <<>>
    THEN [exc |-> "ValueError", key |-> <<>>]
    ELSE [exc |-> "none", key |-> api_keys[(index % Len(api_keys)) + 1]]

\* ImageGeneratorState.rotate_to_next_api_key: the new api_key_index
rotate_to_next_api_key_stuck(api_keys, index) == index

rotate_to_next_api_key_reset(api_keys, index) ==
    IF Len(api_keys) > 1
    THEN (IF index + 1 >= Len(api_keys) THEN 0 ELSE index + 1)
    ELSE 0

rotate_to_next_api_key(api_keys, index) ==
    IF Len(api_keys) > 1 THEN (index + 1) % Len(api_keys) ELSE index

(* ----------------------------- image store ---------------------------- *)

\* line 74: timedelta(minutes=15)
RetentionMinutes == 15

\* lines 77-84: the extensions of image_patterns (both prefixes are listed)
PatternPrefixes == {"gemini", "openai"}
PatternExtensions == {<<"png">>, <<"jpg">>, <<"jpeg">>}

(* A stored file is [path, mtime]; its path is <<prefix, owner, n, ext>>  *)
(* for "<prefix>_image_<timestamp>_<uuid>.<ext>": owner and n stand for   *)
(* the timestamp and uuid4 part, which no two writes share.                *)
ImagePath(prefix, owner, n, ext) == <<prefix, owner, n, ext>>

\* lines 86-87: images_dir.glob(pattern) for the six patterns
MatchesPattern(path) ==
    path[1] \in PatternPrefixes /\ path[4] \in PatternExtensions

\* line 93: file_mtime < cutoff_time
ExpiredInclusive(mtime, current_time) == mtime <= current_time - RetentionMinutes

Expired(mtime, current_time) == mtime < current_time - RetentionMinutes

\* cleanup_old_images: the directory after the sweep
cleanup_old_images(dir, current_time) ==
    {f \in dir : ~(MatchesPattern(f.path) /\ Expired(f.mtime, current_time))}

(* A direct call of cleanup_old_images on dir: its current_time (line 73) *)
(* and the directory it found (lines 86-87).                               *)
SweepOf(dir, current_time) == [ran |-> TRUE, at |-> current_time, found |-> dir]

\* no direct call of cleanup_old_images was made
NoSweep == [ran |-> FALSE, at |-> 0, found |-> {}]

\* lines 142-143 / 427-428: file_url = f"file://{abs_path}"
FileUrl(path) == <<"file://">> \o path

\* lines 430-432: what the download path returns
DownloadReturnPartial(image_url, path) == <<image_url, None>>

DownloadReturn(image_url, path) == <<FileUrl(path), path>>

(* ------------------------- response extraction ------------------------ *)

\* atoms made only of [a-zA-Z0-9.+-]
FormatClass == {"Q", "a", "b", "c", "5", "png", "jpeg", "webp", "more", "None"}
\* atoms made only of [A-Za-z0-9+/=]
Base64Class == FormatClass \cup {"QQ=="}
\* the longest prefix of an atom inside [A-Za-z0-9+/=]; "" when it has none
Base64Prefix(atom) ==
    CASE atom \in Base64Class -> atom
      [] atom = "x/y.png" -> "x/y"
      [] atom = "Here:" -> "Here"
      [] atom = "http://" -> "http"
      [] atom = "https://" -> "https"
      [] atom = "data:image/" -> "data"
      [] OTHER -> ""
\* the part of an atom before its first "/" (for atoms holding one)
HasSlash(atom) == atom \in {"x/y.png", "http://", "https://", "data:image/"}
BeforeSlash(atom) ==
    CASE atom = "x/y.png" -> "x"
      [] atom = "http://" -> "http:"
      [] atom = "https://" -> "https:"
      [] OTHER -> "data:image"

\* s.startswith(atom)
startswith(s, atom) == s # <<>> /\ Head(s) = atom

\* the first index of atom in s, 0 when it is not there
RECURSIVE IndexFrom(_, _, _)
IndexFrom(s, atom, i) ==
    IF i > Len(s) THEN 0
    ELSE IF s[i] = atom THEN i
    ELSE IndexFrom(s, atom, i + 1)

\* header.split("/")[1].split(";")[0] for a header that starts "data:image/"
RECURSIVE FormatRun(_)
FormatRun(s) ==
    IF s = <<>> \/ Head(s) = ";base64" THEN <<>>
    ELSE IF HasSlash(Head(s)) THEN <<BeforeSlash(Head(s))>>
    ELSE <<Head(s)>> \o FormatRun(Tail(s))

(* `header, base64_part = text.split(",", 1)` and the two assignments     *)
(* that follow, inside their try: the extraction state st after them.     *)
(* With no comma the unpacking raises ValueError and st is unchanged.     *)
ParseDataUrl(st, text) ==
    LET i == IndexFrom(text, ",", 1) IN
    IF i = 0 THEN st
    ELSE [st EXCEPT !.image_format = FormatRun(SubSeq(text, 2, i - 1)),
                    !.base64_string = SubSeq(text, i + 1, Len(text))]

\* the greedy run [a-zA-Z0-9.+-]+ from index i: the index after it
RECURSIVE FormatEnd(_, _)
FormatEnd(s, i) ==
    IF i <= Len(s) /\ s[i] \in FormatClass THEN FormatEnd(s, i + 1) ELSE i

\* the greedy run [A-Za-z0-9+/=]+ from index i, as atoms
RECURSIVE Base64Run(_, _)
Base64Run(s, i) ==
    IF i > Len(s) \/ Base64Prefix(s[i]) = "" THEN <<>>
    ELSE IF Base64Prefix(s[i]) = s[i] THEN <<s[i]>> \o Base64Run(s, i + 1)
    ELSE <<Base64Prefix(s[i])>>

\* _DATA_URL_PATTERN matched at index i: group(1), or <<>> for no match
DataUrlAt(s, i) ==
    LET j == FormatEnd(s, i + 1) IN
    IF s[i] = "data:image/" /\ j > i + 1 /\ j + 1 <= Len(s)
       /\ s[j] = ";base64" /\ s[j + 1] = ","
       /\ Base64Run(s, j + 2) # <<>>
    THEN SubSeq(s, i, j + 1) \o Base64Run(s, j + 2)
    ELSE <<>>

\* _DATA_URL_PATTERN.search(text): group(1) of the leftmost match, or <<>>
RECURSIVE DataUrlSearch(_, _)
DataUrlSearch(s, i) ==
    IF i > Len(s) THEN <<>>
    ELSE IF DataUrlAt(s, i) # <<>> THEN DataUrlAt(s, i)
    ELSE DataUrlSearch(s, i + 1)

\* the greedy run [^\s)]+ from index i
RECURSIVE UrlRun(_, _)
UrlRun(s, i) ==
    IF i > Len(s) \/ s[i] \in {" ", ")"} THEN <<>>
    ELSE <<s[i]>> \o UrlRun(s, i + 1)

\* _HTTP_URL_PATTERN.search(text): group(1) of the leftmost match, or <<>>
RECURSIVE HttpUrlSearch(_, _)
HttpUrlSearch(s, i) ==
    IF i > Len(s) THEN <<>>
    ELSE IF s[i] \in {"http://", "https://"} /\ UrlRun(s, i + 1) # <<>>
         THEN <<s[i]>> \o UrlRun(s, i + 1)
    ELSE HttpUrlSearch(s, i + 1)

\* lines 345-347: the extraction state before any rule ran
NoImage == [image_url |-> None, image_format |-> <<"png">>, base64_string |-> None]

\* lines 350-379 with the search for a URL before the search for a data URI
ExtractFromStringUrlFirst(content) ==
    LET text == strip(content) IN
    IF startswith(text, "data:image/") THEN ParseDataUrl(NoImage, text)
    ELSE IF startswith(text, "http://") \/ startswith(text, "https://")
         THEN [NoImage EXCEPT !.image_url = text]
    ELSE IF HttpUrlSearch(text, 1) # <<>>
         THEN [NoImage EXCEPT !.image_url = HttpUrlSearch(text, 1)]
    ELSE IF DataUrlSearch(text, 1) # <<>>
         THEN ParseDataUrl(NoImage, DataUrlSearch(text, 1))
    ELSE NoImage

\* lines 350-379: content is a str
ExtractFromString(content) ==
    LET text == strip(content) IN
    IF startswith(text, "data:image/") THEN ParseDataUrl(NoImage, text)
    ELSE IF startswith(text, "http://") \/ startswith(text, "https://")
         THEN [NoImage EXCEPT !.image_url = text]
    ELSE IF DataUrlSearch(text, 1) # <<>>
         THEN ParseDataUrl(NoImage, DataUrlSearch(text, 1))
    ELSE [NoImage EXCEPT !.image_url = HttpUrlSearch(text, 1)]

(* An entry of a list content: [type, image_url, url], where image_url    *)
(* and url are [t, s]: t is "None", "str" (s its text) or "dict" (s the   *)
(* text under its "url" key, t2 = "None" when that key holds no str).     *)
JNone == [t |-> "None", s |-> <<>>]
JStr(s) == [t |-> "str", s |-> s]
JDict(s) == [t |-> "dict", s |-> s]
ContentItem(type, image_url, url) == [type |-> type, image_url |-> image_url, url |-> url]

\* lines 384-388: the candidate of an entry (<<>> when it is no non-empty str)
Candidate(item) ==
    LET first == item.image_url
        url_obj == IF first.t = "dict" \/ (first.t = "str" /\ first.s # <<>>)
                   THEN first ELSE item.url
    IN  IF url_obj.t = "None" THEN <<>> ELSE url_obj.s

\* lines 382-399: the loop over a list content, from entry i with state st
RECURSIVE ExtractFromList(_, _, _)
ExtractFromList(items, i, st) ==
    IF i > Len(items) THEN st
    ELSE IF items[i].type \in {"image_url", "output_image"} /\ Candidate(items[i]) # <<>>
         THEN IF startswith(Candidate(items[i]), "data:image/")
              THEN ExtractFromList(items, i + 1, ParseDataUrl(st, Candidate(items[i])))
              ELSE [st EXCEPT !.image_url = Candidate(items[i])]
    ELSE ExtractFromList(items, i + 1, st)

(* The message content: [t, text, items], t one of "str", "list", "None". *)
StrContent(text) == [t |-> "str", text |-> text, items |-> <<>>]
ListContent(items) == [t |-> "list", text |-> <<>>, items |-> items]
NoContent == [t |-> "None", text |-> <<>>, items |-> <<>>]

\* lines 345-399
ExtractFromContent(content) ==
    CASE content.t = "str" -> ExtractFromString(content.text)
      [] content.t = "list" -> ExtractFromList(content.items, 1, NoImage)
      [] OTHER -> NoImage

(* The "data" member of the body: [k, s]; k is "absent", "empty" (an      *)
(* empty list), "url" or "b64_json" (data[0] holds that key with text s)  *)
(* or "other" (data[0] holds neither key).                                 *)
DataField(k, s) == [k |-> k, s |-> s]

\* lines 402-408: the data[0] fallback
DataFallback(st, data) ==
    IF st.image_url = None /\ st.base64_string = None /\ data.k \notin {"absent", "empty"}
    THEN CASE data.k = "url" -> [st EXCEPT !.image_url = data.s]
           [] data.k = "b64_json" ->
                [st EXCEPT !.base64_string = data.s, !.image_format = <<"png">>]
           [] OTHER -> st
    ELSE st

\* base64 data characters of an atom (the other characters are discarded)
DataChars(atom) ==
    CASE atom \in {"Q", "a", "b", "c", "5"} -> 1
      [] atom \in {"png", "x/y"} -> 3
      [] atom \in {"jpeg", "webp", "more", "None", "Here", "http", "data", "Here:"} -> 4
      [] atom = "https" -> 5
      [] atom \in {"x/y.png", "http://", ";base64"} -> 6
      [] atom = "https://" -> 7
      [] atom = "data:image/" -> 10
      [] OTHER -> 0

(* base64.b64decode(s) without validation: TRUE when it returns, FALSE    *)
(* when it raises binascii.Error.  pos is the position in the quad.       *)
(* Padding at position 2 or 3 ends the data; at 0 or 1 it is skipped.     *)
RECURSIVE b64decode_ok(_, _)
b64decode_ok(s, pos) ==
    IF s = <<>> THEN pos = 0
    ELSE IF Head(s) = "QQ=="
         THEN IF (pos + 2) % 4 \in {2, 3} THEN TRUE
              ELSE b64decode_ok(Tail(s), (pos + 2) % 4)
    ELSE b64decode_ok(Tail(s), (pos + DataChars(Head(s))) % 4)

(* ------------------------- provider responses ------------------------- *)

(* The parsed body: top is "dict", "list" or "null"; choices is "absent", *)
(* "empty", "bad" (choices[0] or its message is no object) or "ok";       *)
(* error is "absent", "dict" or "str" (the "error" member); candidates is *)
(* "absent" or "ok" (a non-empty "candidates" list, the answer of a       *)
(* generateContent endpoint).                                              *)
JsonBody(top, choices, content, data, error) ==
    [top |-> top, choices |-> choices, content |-> content, data |-> data,
     error |-> error, candidates |-> "absent"]

NoData == DataField("absent", <<>>)
NoBody == JsonBody("null", "absent", NoContent, NoData, "absent")

(* What session.post and response.json() give: exc is "none" or the       *)
(* exception raised; status is 0 when no response arrived.                 *)
Response(exc, status, body) == [exc |-> exc, status |-> status, body |-> body]

NoResponse == Response("none", 0, NoBody)

OkBody(content, data) == JsonBody("dict", "ok", content, data, "absent")

\* a body with a non-empty candidates list and no choices
CandidatesBody ==
    [JsonBody("dict", "absent", NoContent, NoData, "absent") EXCEPT !.candidates = "ok"]

UrlText == <<"https://", "x/y.png">>
DataUrlText(format, payload) == <<"data:image/", format, ";base64", ",", payload>>

Responses ==
    { Response("ClientError", 0, NoBody),
      Response("TimeoutError", 0, NoBody),
      Response("JSONDecodeError", 200, NoBody),
      Response("ContentTypeError", 500, NoBody),
      Response("none", 500, JsonBody("dict", "absent", NoContent, NoData, "dict")),
      Response("none", 500, JsonBody("dict", "absent", NoContent, NoData, "str")),
      Response("none", 200, NoBody),
      Response("none", 200,
               JsonBody("dict", "empty", NoContent, DataField("url", UrlText), "absent")),
      Response("none", 200, JsonBody("dict", "bad", NoContent, NoData, "absent")),
      Response("none", 200, OkBody(NoContent, NoData)),
      Response("none", 200, OkBody(StrContent(<<"Here:", " ", "more">>), NoData)),
      Response("none", 200,
               OkBody(StrContent(<<"Here:", " ">> \o UrlText \o <<" ", "more">>), NoData)),
      Response("none", 200, OkBody(StrContent(DataUrlText("jpeg", "QQ==")), NoData)),
      Response("none", 200, OkBody(StrContent(DataUrlText("png", "Q")), NoData)),
      Response("none", 200,
               OkBody(StrContent(<<"Here:", " ">> \o DataUrlText("webp", "QQ==") \o <<")">>),
                      NoData)),
      Response("none", 200, OkBody(StrContent(<<"data:image/", "png">>), NoData)),
      Response("none", 200,
               OkBody(ListContent(<<ContentItem("image_url",
                                                JDict(DataUrlText("png", "QQ==")), JNone),
                                    ContentItem("output_image", JNone, JStr(UrlText))>>),
                      NoData)),
      Response("none", 200, OkBody(NoContent, DataField("b64_json", <<"QQ==">>))) }

\* what session.get(image_url) gives
Downloads ==
    { [exc |-> "ClientError", status |-> 0],
      [exc |-> "TimeoutError", status |-> 0],
      [exc |-> "none", status |-> 404],
      [exc |-> "none", status |-> 200] }

\* how an aiofiles write ends: "ok", or the exception raised
DownloadWrites == {"ok", "OSError", "ClientPayloadError"}
Base64Writes == {"ok", "OSError"}

(* ------------------------------ exceptions ---------------------------- *)

\* aiohttp.ClientError and its subclasses, asyncio.TimeoutError
NetworkErrors == {"ClientError", "ContentTypeError", "ClientPayloadError", "TimeoutError"}
\* the subclasses of Exception that the modelled code can raise
ExceptionClasses ==
    NetworkErrors \cup {"ValueError", "JSONDecodeError", "TypeError",
                        "AttributeError", "OSError"}

\* lines 457-466: the except clause that takes an exception raised in the try
ExceptClauseNetworkOnly(exc) ==
    IF exc \in NetworkErrors THEN "network" ELSE "propagate"

ExceptClause(exc) ==
    CASE exc \in NetworkErrors -> "network"
      [] exc \in ExceptionClasses -> "generic"
      [] OTHER -> "propagate"

(* --------------------------- generation calls ------------------------- *)

(* The record of one generate_image_openai coroutine.  pc is where it is  *)
(* suspended: "idle" (not called yet), "sleep" (line 330), "post" (lines  *)
(* 332-333), "download" (line 412), "dlwrite" (lines 424-425), "b64write" *)
(* (lines 138-139), "done" (returned), "raised" (left by an exception).   *)
(* requests, rotations and sleeps count the session.post calls, the       *)
(* rotate_to_next_api_key calls and the asyncio.sleep calls; only_non200  *)
(* holds while every request so far was answered with a status other than *)
(* 200; resp, dl and save are what the current attempt received; via is   *)
(* "record" when the returned pair was read from last_saved_image and     *)
(* "direct" when it is the call's own; mode is line 221 and payload the   *)
(* shape of the request body, "messages" or "contents" (lines 247-311).   *)
IdleCall ==
    [pc |-> "idle", api_key |-> PyNone, api_keys |-> <<>>, max_retry_attempts |-> 0,
     mode |-> <<"openai">>, payload |-> "messages",
     retry_attempt |-> 0, current_key |-> <<>>, st |-> NoImage, image_path |-> None,
     result |-> <<None, None>>, via |-> "none", raised |-> "none",
     requests |-> 0, rotations |-> 0, sleeps |-> 0, only_non200 |-> TRUE,
     resp |-> NoResponse, dl |-> "none", save |-> "none",
     delay |-> 0, sent_key |-> <<>>]

\* the shared state and the record of call p, as one step reads and writes them
World(p) ==
    [p |-> p, c |-> calls[p], index |-> api_key_index, saved |-> last_saved_image,
     files |-> files, now |-> now]

\* ImageGeneratorState.update_saved_image
update_saved_image(url, path) == [url |-> url, path |-> path]

\* ImageGeneratorState.get_saved_image_info
get_saved_image_info(saved) == <<saved.url, saved.path>>

\* a return statement of generate_image_openai
Return(w, result, via) ==
    [w EXCEPT !.c = [w.c EXCEPT !.pc = "done", !.result = result, !.via = via,
                                !.st = NoImage, !.image_path = None]]

\* the mutant of Delay: the wait is not capped
DelayUncapped(retry_attempt) == 2 ^ retry_attempt

\* line 325: delay = min(2 ** retry_attempt, 10)
Delay(retry_attempt) == IF 2 ^ retry_attempt < 10 THEN 2 ^ retry_attempt ELSE 10

\* the mutant of HeaderKey: the key is read again when the request is sent
HeaderKeyAtSend(current_key, api_keys, index) == get_next_api_key(api_keys, index).key

(* lines 318-322: the Authorization header is built from the key read at  *)
(* the top of the attempt, before the sleep                               *)
HeaderKey(current_key, api_keys, index) == current_key

RECURSIVE NextAttempt(_)
RECURSIVE AfterFailure(_)
RECURSIVE Raise(_, _)

\* the mutant of NextAttempt: one attempt more than max_retry_attempts
NextAttemptOneMore(w) ==
    IF w.c.retry_attempt > w.c.max_retry_attempts
    THEN Return(w, <<None, None>>, "none")
    ELSE LET got == get_next_api_key(w.c.api_keys, w.index) IN
         IF got.exc # "none" THEN Raise(w, got.exc)
         ELSE IF w.c.retry_attempt > 0
              THEN [w EXCEPT !.c = [w.c EXCEPT !.current_key = got.key,
                                               !.pc = "sleep", !.sleeps = @ + 1,
                                               !.delay = Delay(w.c.retry_attempt),
                                               !.sent_key = <<>>,
                                               !.resp = NoResponse, !.dl = "none",
                                               !.save = "none", !.st = NoImage,
                                               !.image_path = None]]
              ELSE [w EXCEPT !.c = [w.c EXCEPT !.current_key = got.key,
                                               !.pc = "post", !.requests = @ + 1,
                                               !.sent_key = HeaderKey(got.key,
                                                                w.c.api_keys, w.index)]]

(* lines 315-332: the head of the loop, up to the sleep or the post; past *)
(* the last attempt, lines 468-469.                                        *)
NextAttempt(w) ==
    IF w.c.retry_attempt >= w.c.max_retry_attempts
    THEN Return(w, <<None, None>>, "none")
    ELSE LET got == get_next_api_key(w.c.api_keys, w.index) IN
         IF got.exc # "none" THEN Raise(w, got.exc)
         ELSE IF w.c.retry_attempt > 0
              THEN [w EXCEPT !.c = [w.c EXCEPT !.current_key = got.key,
                                               !.pc = "sleep", !.sleeps = @ + 1,
                                               !.delay = Delay(w.c.retry_attempt),
                                               !.sent_key = <<>>,
                                               !.resp = NoResponse, !.dl = "none",
                                               !.save = "none", !.st = NoImage,
                                               !.image_path = None]]
              ELSE [w EXCEPT !.c = [w.c EXCEPT !.current_key = got.key,
                                               !.pc = "post", !.requests = @ + 1,
                                               !.sent_key = HeaderKey(got.key,
                                                                w.c.api_keys, w.index)]]

\* lines 455, 462, 466 without the rotation after the last attempt
AfterFailureSkipLast(w) ==
    IF w.c.retry_attempt + 1 < w.c.max_retry_attempts
    THEN NextAttempt([w EXCEPT !.c = [w.c EXCEPT !.rotations = @ + 1,
                                                 !.retry_attempt = @ + 1],
                               !.index = rotate_to_next_api_key(w.c.api_keys, w.index)])
    ELSE NextAttempt([w EXCEPT !.c = [w.c EXCEPT !.retry_attempt = @ + 1]])

\* lines 455, 462, 466: rotate, then the next iteration of the loop
AfterFailure(w) ==
    NextAttempt([w EXCEPT !.c = [w.c EXCEPT !.rotations = @ + 1,
                                            !.retry_attempt = @ + 1],
                          !.index = rotate_to_next_api_key(w.c.api_keys, w.index)])

\* an exception raised inside the try of lines 316-455
Raise(w, exc) ==
    IF ExceptClause(exc) = "propagate"
    THEN [w EXCEPT !.c = [w.c EXCEPT !.pc = "raised", !.raised = exc]]
    ELSE AfterFailure(w)

(* save_base64_image up to its write (lines 116-138): mkdir, the sweep,   *)
(* b64decode, the file name.  A decode error returns False, and the       *)
(* caller goes on to lines 441-442.                                        *)
SaveBase64Begin(w) ==
    LET swept == [w EXCEPT !.files = cleanup_old_images(w.files, w.now)] IN
    IF b64decode_ok(w.c.st.base64_string, 0)
    THEN [swept EXCEPT !.c = [w.c EXCEPT
              !.pc = "b64write",
              !.image_path = ImagePath("gemini", w.p, w.c.retry_attempt,
                                       w.c.st.image_format)]]
    ELSE Return([swept EXCEPT !.c = [w.c EXCEPT !.save = "decode_error"]],
                <<None, None>>, "none")

\* lines 436-442 when nothing was extracted or saved: rotate and retry
SavePhaseRetry(w) ==
    IF w.c.st.base64_string # None THEN SaveBase64Begin(w) ELSE AfterFailure(w)

\* lines 436-442: after the download branch
SavePhase(w) ==
    IF w.c.st.base64_string # None
    THEN SaveBase64Begin(w)
    ELSE Return(w, <<None, None>>, "none")

\* lines 411-442 for the extraction state st
SaveImage(w, st) ==
    LET w1 == [w EXCEPT !.c = [w.c EXCEPT !.st = st]] IN
    IF st.image_url # None
    THEN [w1 EXCEPT !.c = [w1.c EXCEPT !.pc = "download"]]
    ELSE SavePhase(w1)

\* the mutant of HandleResponse: data[0] is consulted without choices
HandleResponseDataFirst(w0, r) ==
    LET w == [w0 EXCEPT !.c = [w0.c EXCEPT
                  !.resp = r,
                  !.only_non200 = @ /\ r.status \notin {0, 200}]]
        b == r.body
    IN  CASE r.exc # "none" -> Raise(w, r.exc)
          [] r.exc = "none" /\ r.status = 200 /\ b.top = "null" -> Raise(w, "TypeError")
          [] r.exc = "none" /\ r.status = 200 /\ b.top = "dict" /\ b.choices = "bad" ->
                Raise(w, "AttributeError")
          [] r.exc = "none" /\ r.status = 200 /\ b.top = "dict" /\ b.choices = "ok" ->
                SaveImage(w, DataFallback(ExtractFromContent(b.content), b.data))
          [] r.exc = "none" /\ r.status = 200 /\ b.top = "dict"
                /\ b.choices \in {"absent", "empty"} /\ b.data.k # "absent" ->
                SaveImage(w, DataFallback(NoImage, b.data))
          [] OTHER ->
                IF b.top = "dict" /\ b.error = "str"
                THEN Raise(w, "AttributeError")
                ELSE AfterFailure(w)

\* lines 333-455: a response r to the post of the current attempt
HandleResponse(w0, r) ==
    LET w == [w0 EXCEPT !.c = [w0.c EXCEPT
                  !.resp = r,
                  !.only_non200 = @ /\ r.status \notin {0, 200}]]
        b == r.body
    IN  CASE r.exc # "none" -> Raise(w, r.exc)
          [] r.exc = "none" /\ r.status = 200 /\ b.top = "null" -> Raise(w, "TypeError")
          [] r.exc = "none" /\ r.status = 200 /\ b.top = "dict" /\ b.choices = "bad" ->
                Raise(w, "AttributeError")
          [] r.exc = "none" /\ r.status = 200 /\ b.top = "dict" /\ b.choices = "ok" ->
                SaveImage(w, DataFallback(ExtractFromContent(b.content), b.data))
          [] OTHER ->
                IF b.top = "dict" /\ b.error = "str"
                THEN Raise(w, "AttributeError")
                ELSE AfterFailure(w)

\* lines 412-434: the answer d to session.get(image_url)
HandleDownload(w, d) ==
    CASE d.exc # "none" -> Raise(w, d.exc)
      [] d.exc = "none" /\ d.status = 200 ->
            [w EXCEPT !.files = cleanup_old_images(w.files, w.now),
                      !.c = [w.c EXCEPT
                          !.pc = "dlwrite",
                          !.image_path = ImagePath("openai", w.p, w.c.retry_attempt,
                                                   <<"png">>)]]
      [] OTHER -> SavePhase([w EXCEPT !.c = [w.c EXCEPT !.dl = "non200"]])

(* lines 424-432: the end o of the write of the downloaded bytes.  A      *)
(* failed img_response.read() leaves the opened file behind.               *)
HandleDownloadWrite(w, o) ==
    LET file == [path |-> w.c.image_path, mtime |-> w.now] IN
    CASE o = "ok" ->
            Return([w EXCEPT !.files = @ \cup {file},
                             !.saved = update_saved_image(FileUrl(w.c.image_path),
                                                          w.c.image_path)],
                   DownloadReturn(w.c.st.image_url, w.c.image_path), "direct")
      [] o = "ClientPayloadError" -> Raise([w EXCEPT !.files = @ \cup {file}], o)
      [] OTHER -> Raise(w, o)

(* lines 138-158 and 437-442: the end o of the write in save_base64_image *)
HandleBase64Write(w, o) ==
    IF o = "ok"
    THEN LET w1 == [w EXCEPT !.files = @ \cup {[path |-> w.c.image_path,
                                                 mtime |-> w.now]},
                             !.saved = update_saved_image(FileUrl(w.c.image_path),
                                                          w.c.image_path),
                             !.c = [w.c EXCEPT !.save = "ok"]]
         IN  Return(w1, get_saved_image_info(w1.saved), "record")
    ELSE Return([w EXCEPT !.c = [w.c EXCEPT !.save = "io_error"]],
                <<None, None>>, "none")

\* str.lower() of an atom
Lower(atom) ==
    CASE atom = "Gemini" -> "gemini"
      [] atom = "OpenAI" -> "openai"
      [] OTHER -> atom

\* line 221: mode = (api_format or "openai").lower()
Mode(api_format) ==
    IF truthy(api_format)
    THEN [i \in 1..Len(api_format.s) |-> Lower(api_format.s[i])]
    ELSE <<"openai">>

\* lines 247-311: the shape of the request body
Payload(mode) == IF mode = <<"openai">> THEN "messages" ELSE "contents"

\* lines 221-311 and the entry of the loop
HandleStart(w0, api_key, api_format, max_retry_attempts) ==
    LET w == [w0 EXCEPT !.c = [w0.c EXCEPT
                  !.api_key = api_key,
                  !.api_keys = NormalizeKeyArg(api_key),
                  !.mode = Mode(api_format),
                  !.max_retry_attempts = max_retry_attempts]]
    IN  IF NoKeys(w.c.api_keys)
        THEN Return(w, <<None, None>>, "none")
        ELSE NextAttempt([w EXCEPT !.c = [w.c EXCEPT !.payload = Payload(w.c.mode)]])

(* ------------------------------- actions ------------------------------ *)

\* the api_key arguments a call is started with
ApiKeyArgs ==
    { PyNone,
      PyStr(<<" ", "a", " ">>),
      PyList(<<PyStr(<<" ">>), PyStr(<<>>)>>),
      PyList(<<PyStr(<<" ", "a">>), PyStr(<<" ">>), PyInt(<<"5">>)>>) }

\* the max_retry_attempts arguments a call is started with
RetryArgs == (-1)..MaxRetry

\* the times the clock shows, in minutes
ClockTimes == {0, 16}

Commit(w) ==
    /\ calls' = [calls EXCEPT ![w.p] = w.c]
    /\ api_key_index' = w.index
    /\ last_saved_image' = w.saved
    /\ files' = w.files
    /\ UNCHANGED <<now, rot, lock, th, sweep, plugin, cmds, rate>>

\* generate_image_openai is called with arguments drawn from the given sets
StartWith(p, api_key_args, api_formats, retry_args) ==
    /\ calls[p].pc = "idle"
    /\ \E api_key \in api_key_args, api_format \in api_formats, m \in retry_args :
          Commit(HandleStart(World(p), api_key, api_format, m))

Start(p) == StartWith(p, ApiKeyArgs, {PyStr(<<"openai">>)}, RetryArgs)

\* asyncio.sleep(delay) is over: line 332 sends the request
Wake(p) ==
    /\ calls[p].pc = "sleep"
    /\ Commit([World(p) EXCEPT !.c = [calls[p] EXCEPT
                    !.pc = "post", !.requests = @ + 1,
                    !.sent_key = HeaderKey(calls[p].current_key, calls[p].api_keys,
                                           api_key_index)]])

\* the post of the current attempt is answered by one of responses
RespondWith(p, responses) ==
    /\ calls[p].pc = "post"
    /\ \E r \in responses : Commit(HandleResponse(World(p), r))

Respond(p) == RespondWith(p, Responses)

Download(p) ==
    /\ calls[p].pc = "download"
    /\ \E d \in Downloads : Commit(HandleDownload(World(p), d))

DownloadWrite(p) ==
    /\ calls[p].pc = "dlwrite"
    /\ \E o \in DownloadWrites : Commit(HandleDownloadWrite(World(p), o))

Base64Write(p) ==
    /\ calls[p].pc = "b64write"
    /\ \E o \in Base64Writes : Commit(HandleBase64Write(World(p), o))

Tick ==
    /\ \E t \in ClockTimes : t > now /\ now' = t
    /\ UNCHANGED <<api_key_index, last_saved_image, files, calls, rot, lock, th,
                   sweep, plugin, cmds, rate>>

(* A coroutine that uses the rotator: pc is "idle", "get_wait" and        *)
(* "rot_wait" (at `async with self._lock`), "get_in", "rot_in" and         *)
(* "rot_write" (inside it); local is the cursor it read at line 31;       *)
(* rotated counts its completed rotate_to_next_api_key calls; got is what *)
(* its last get_next_api_key gave ("unset" before the first).             *)
IdleUser ==
    [pc |-> "idle", local |-> 0, rotated |-> 0, got |-> [exc |-> "unset", key |-> <<>>]]

\* the plugin object when it plays no part
NoPlugin ==
    [value |-> PyNone, openai_api_keys |-> <<>>, loaded |-> FALSE,
     group_filter_mode |-> <<"none">>, group_filter_list |-> <<>>,
     rate_limit_max_calls_per_group |-> 0, rate_limit_period_seconds |-> 60,
     fetches |-> 0, applied |-> 0]

\* a command slot before its command arrives
NoCommand ==
    [pc |-> "new", kind |-> "none", event |-> [has_group |-> FALSE, group_id |-> PyNone],
     args |-> FALSE, allowed |-> FALSE, checked |-> FALSE, admitted |-> FALSE,
     at |-> 0, window |-> 0, reply |-> "none", generations |-> 0]

Commands == {"m1", "m2", "m3"}

\* main.py line 42: self._rate_limit_state = {}
NoRate == << >>

NoRotator ==
    [keys |-> <<>>, start |-> 0, n |-> 0, first |-> get_next_api_key(<<>>, 0),
     got |-> get_next_api_key(<<>>, 0), got_n |-> 0]

Init ==
    /\ api_key_index = 0
    /\ last_saved_image = [url |-> None, path |-> None]
    /\ files = {}
    /\ now = 0
    /\ calls = [p \in Calls |-> IdleCall]
    /\ rot = NoRotator
    /\ lock = "free"
    /\ th = [p \in Calls |-> IdleUser]
    /\ sweep = NoSweep
    /\ plugin = NoPlugin
    /\ cmds = [m \in Commands |-> NoCommand]
    /\ rate = NoRate

Next ==
    \/ \E p \in Calls : Start(p)
    \/ \E p \in Calls : Wake(p)
    \/ \E p \in Calls : Respond(p)
    \/ \E p \in Calls : Download(p)
    \/ \E p \in Calls : DownloadWrite(p)
    \/ \E p \in Calls : Base64Write(p)
    \/ Tick

Spec == Init /\ [][Next]_vars

(* ----------------------- one call, every argument -------------------- *)

(* One generate_image_openai call alone, with the api_key and api_format  *)
(* arguments of every kind and, besides Responses, the answer of a        *)
(* generateContent endpoint.                                               *)
SoloApiKeyArgs ==
    ApiKeyArgs \cup { PyStr(<<>>), PyStr(<<" ">>), PyStr(<<"a">>), PyList(<<>>),
                      PyList(<<PyStr(<<"a">>), PyStr(<<" ", " ">>)>>) }

ApiFormats == {PyNone, PyStr(<<"openai">>), PyStr(<<"gemini">>), PyStr(<<"Gemini">>)}

SoloResponses == Responses \cup {Response("none", 200, CandidatesBody)}

SoloStart == StartWith("c1", SoloApiKeyArgs, ApiFormats, RetryArgs)

SoloRespond == RespondWith("c1", SoloResponses)

SoloNext ==
    \/ SoloStart
    \/ Wake("c1")
    \/ SoloRespond
    \/ Download("c1")
    \/ DownloadWrite("c1")
    \/ Base64Write("c1")
    \/ Tick

SpecSolo == Init /\ [][SoloNext]_vars

(* --------------------- one call, every message content ---------------- *)

(* One generate_image_openai call alone, answered with message contents   *)
(* of every shape: strings put together from chunks, and lists of         *)
(* entries.                                                                *)
RECURSIVE Concat(_)
Concat(seqs) == IF seqs = <<>> THEN <<>> ELSE Head(seqs) \o Concat(Tail(seqs))

TextChunks ==
    { DataUrlText("jpeg", "QQ=="), UrlText, <<"data:image/", "png">>,
      <<" ">>, <<"Here:">>, <<")">>, <<",">> }

ContentTexts == {Concat(chunks) : chunks \in SeqUpTo(TextChunks, MaxChunks)}

ContentItems ==
    { ContentItem("text", JNone, JNone),
      ContentItem("image_url", JDict(DataUrlText("jpeg", "QQ==")), JNone),
      ContentItem("image_url", JDict(DataUrlText("webp", "QQ==")), JNone),
      ContentItem("image_url", JDict(<<"data:image/", "png">>), JNone),
      ContentItem("image_url", JStr(<<>>), JStr(<<"http://", "a">>)),
      ContentItem("output_image", JNone, JStr(UrlText)),
      ContentItem("text", JStr(UrlText), JNone),
      ContentItem("image_url", JDict(<<>>), JStr(UrlText)) }

ContentLists == SeqUpTo(ContentItems, MaxItems)

ExtractResponses ==
    Responses
    \cup {Response("none", 200, OkBody(StrContent(t), NoData)) : t \in ContentTexts}
    \cup {Response("none", 200, OkBody(ListContent(l), NoData)) : l \in ContentLists}
    \cup {Response("none", 200, OkBody(ListContent(l), DataField("url", UrlText))) :
             l \in ContentLists}
    \cup {Response("none", 200, OkBody(StrContent(t), DataField("b64_json", <<"QQ==">>))) :
             t \in {<<"Here:">>, UrlText, DataUrlText("jpeg", "QQ=="),
                    <<"data:image/", "png">>}}

ExtractStart == StartWith("c1", {PyStr(<<"a">>)}, {PyStr(<<"openai">>)}, {1, MaxRetry})

ExtractRespond == RespondWith("c1", ExtractResponses)

ExtractNext ==
    \/ ExtractStart
    \/ Wake("c1")
    \/ ExtractRespond
    \/ Download("c1")
    \/ DownloadWrite("c1")
    \/ Base64Write("c1")
    \/ Tick

SpecExtract == Init /\ [][ExtractNext]_vars

(* ------------------ cleanup_old_images called directly ---------------- *)

(* The images directory holds any of these files, each with any of these  *)
(* modification times, when cleanup_old_images is called at any later     *)
(* minute.  "photo" is a file that no pattern names.                       *)
DirPaths ==
    { ImagePath("gemini", "c1", 0, <<"png">>),
      ImagePath("openai", "c1", 1, <<"jpg">>),
      ImagePath("gemini", "c2", 0, <<"webp">>),
      ImagePath("photo", "c2", 1, <<"png">>) }

DirMtimes == {0, 1, 2}

StoreInit ==
    /\ \E present \in SUBSET DirPaths, mtime \in [DirPaths -> DirMtimes] :
          files = {[path |-> path, mtime |-> mtime[path]] : path \in present}
    /\ now = 2
    /\ sweep = NoSweep
    /\ api_key_index = 0
    /\ last_saved_image = [url |-> None, path |-> None]
    /\ calls = [p \in Calls |-> IdleCall]
    /\ rot = NoRotator
    /\ lock = "free"
    /\ th = [p \in Calls |-> IdleUser]
    /\ plugin = NoPlugin
    /\ cmds = [m \in Commands |-> NoCommand]
    /\ rate = NoRate

\* a minute passes
StoreTick ==
    /\ now < MaxMinutes
    /\ now' = now + 1
    /\ UNCHANGED <<api_key_index, last_saved_image, files, calls, rot, lock, th,
                   sweep, plugin, cmds, rate>>

\* cleanup_old_images(), lines 55-101
StoreSweep ==
    /\ files' = cleanup_old_images(files, now)
    /\ sweep' = SweepOf(files, now)
    /\ UNCHANGED <<api_key_index, last_saved_image, now, calls, rot, lock, th, plugin, cmds, rate>>

StoreNext == StoreTick \/ StoreSweep

SpecStore == StoreInit /\ [][StoreNext]_vars

(* ------------------- the key rotator used directly -------------------- *)

(* get_next_api_key and rotate_to_next_api_key called with one fixed key  *)
(* list, from any cursor earlier calls may have left.  rot holds the      *)
(* list, the cursor at the start, the number n of rotate calls, what the  *)
(* first get_next_api_key gave, and what the last one gave after got_n    *)
(* rotate calls.                                                           *)
KeyLists == {<<>>, <<<<"a">>>>, <<<<"a">>, <<"b">>>>, <<<<"a">>, <<"b">>, <<"c">>>>}

RotatorInit ==
    /\ api_key_index \in 0..MaxCursor
    /\ \E keys \in KeyLists :
          rot = [keys |-> keys, start |-> api_key_index, n |-> 0,
                 first |-> get_next_api_key(keys, api_key_index),
                 got |-> get_next_api_key(keys, api_key_index), got_n |-> 0]
    /\ last_saved_image = [url |-> None, path |-> None]
    /\ files = {}
    /\ now = 0
    /\ calls = [p \in Calls |-> IdleCall]
    /\ lock = "free"
    /\ th = [p \in Calls |-> IdleUser]
    /\ sweep = NoSweep
    /\ plugin = NoPlugin
    /\ cmds = [m \in Commands |-> NoCommand]
    /\ rate = NoRate

RotatorGet ==
    /\ rot' = [rot EXCEPT !.got = get_next_api_key(rot.keys, api_key_index),
                          !.got_n = rot.n]
    /\ UNCHANGED <<api_key_index, last_saved_image, files, now, calls, lock, th,
                   sweep, plugin, cmds, rate>>

RotatorRotate ==
    /\ rot.n < MaxRotations
    /\ api_key_index' = rotate_to_next_api_key(rot.keys, api_key_index)
    /\ rot' = [rot EXCEPT !.n = @ + 1]
    /\ UNCHANGED <<last_saved_image, files, now, calls, lock, th, sweep, plugin, cmds, rate>>

RotatorNext == RotatorGet \/ RotatorRotate

SpecRotator == RotatorInit /\ [][RotatorNext]_vars

(* ------------------- the plugin's key configuration ------------------- *)

\* value.split(","), main.py line 166
RECURSIVE SplitComma(_)
SplitComma(s) ==
    LET i == IndexFrom(s, ",", 1) IN
    IF i = 0 THEN <<s>>
    ELSE <<SubSeq(s, 1, i - 1)>> \o SplitComma(SubSeq(s, i + 1, Len(s)))

\* main.py lines 168 and 178: `if k:`
KeepKeyAlways(k) == TRUE

KeepKey(k) == k # <<>>

\* main.py lines 174-179: the loop over a list value, from item i
RECURSIVE NormalizeItems(_, _)
NormalizeItems(items, i) ==
    IF i > Len(items) THEN <<>>
    ELSE IF items[i].t = "None" THEN NormalizeItems(items, i + 1)
    ELSE LET k == strip(str(items[i])) IN
         (IF KeepKey(k) THEN <<k>> ELSE <<>>) \o NormalizeItems(items, i + 1)

\* main.py lines 166-170: the loop over the parts of a str value
RECURSIVE NormalizeParts(_, _)
NormalizeParts(parts, i) ==
    IF i > Len(parts) THEN <<>>
    ELSE LET k == strip(parts[i]) IN
         (IF KeepKey(k) THEN <<k>> ELSE <<>>) \o NormalizeParts(parts, i + 1)

\* MyPlugin._normalize_api_keys
normalize_api_keys(value) ==
    CASE value.t = "None" -> <<>>
      [] value.t = "str" -> NormalizeParts(SplitComma(value.s), 1)
      [] value.t = "list" -> NormalizeItems(value.items, 1)
      [] OTHER -> <<>>

\* the atoms of a configured key string
KeyAtoms == {"a", "b", " ", ","}

\* the elements of a configured key list
KeyItems ==
    { PyNone, PyStr(<<>>), PyStr(<<" ">>), PyStr(<<"a">>), PyStr(<<" ", "b", " ">>),
      PyStr(<<"a", ",", "b">>), PyInt(<<"5">>) }

\* "a, b,, c"
ExampleKeyText == <<"a", ",", " ", "b", ",", ",", " ", "c">>

\* the values the configuration holds under openai_api_key
ConfigValues ==
    {PyNone, PyInt(<<"5">>), PyStr(ExampleKeyText)}
    \cup {PyStr(t) : t \in SeqUpTo(KeyAtoms, MaxKeyText)}
    \cup {PyList(l) : l \in SeqUpTo(KeyItems, MaxKeyItems)}

\* main.py line 18: the plugin after __init__
PluginInit ==
    /\ \E value \in ConfigValues :
          plugin = [NoPlugin EXCEPT !.value = value,
                                    !.openai_api_keys = normalize_api_keys(value)]
    /\ api_key_index = 0
    /\ last_saved_image = [url |-> None, path |-> None]
    /\ files = {}
    /\ now = 0
    /\ calls = [p \in Calls |-> IdleCall]
    /\ rot = NoRotator
    /\ lock = "free"
    /\ th = [p \in Calls |-> IdleUser]
    /\ sweep = NoSweep
    /\ cmds = [m \in Commands |-> NoCommand]
    /\ rate = NoRate

(* main.py lines 50-87, _load_global_config when the global configuration *)
(* holds openai_api_key                                                    *)
LoadGlobalKeys ==
    /\ ~plugin.loaded
    /\ \E value \in ConfigValues :
          plugin' = [plugin EXCEPT !.value = value,
                                   !.openai_api_keys = normalize_api_keys(value),
                                   !.loaded = TRUE]
    /\ UNCHANGED <<api_key_index, last_saved_image, files, now, calls, rot, lock, th,
                   sweep, cmds, rate>>

(* main.py lines 50-87, _load_global_config when the global configuration *)
(* holds no openai_api_key, or sp.global_get raised                        *)
LoadGlobalOther ==
    /\ ~plugin.loaded
    /\ plugin' = [plugin EXCEPT !.loaded = TRUE]
    /\ UNCHANGED <<api_key_index, last_saved_image, files, now, calls, rot, lock, th,
                   sweep, cmds, rate>>

PluginNext == LoadGlobalKeys \/ LoadGlobalOther

SpecPlugin == PluginInit /\ [][PluginNext]_vars

(* ------------- the key rotator shared by concurrent callers ----------- *)

(* Several coroutines call get_next_api_key and rotate_to_next_api_key on *)
(* the one ImageGeneratorState with one fixed key list, interleaved step  *)
(* by step: entering `async with self._lock`, the body, and for line 31   *)
(* the read of api_key_index and its assignment apart.  rot.n counts the  *)
(* completed rotate calls of all callers.                                  *)

\* asyncio.Lock.locked()
LockedNever(l) == FALSE

Locked(l) == l # "free"

\* a caller starts get_next_api_key or rotate_to_next_api_key
UserCall(p) ==
    /\ th[p].pc = "idle"
    /\ \/ th' = [th EXCEPT ![p].pc = "get_wait"]
       \/ /\ rot.n + Cardinality({q \in Calls : th[q].pc \in {"rot_wait", "rot_in",
                                                              "rot_write"}})
               < MaxRotations
          /\ th' = [th EXCEPT ![p].pc = "rot_wait"]
    /\ UNCHANGED <<api_key_index, last_saved_image, files, now, calls, rot, lock,
                   sweep, plugin, cmds, rate>>

\* lines 21 and 29: `async with self._lock` is entered
UserAcquire(p) ==
    /\ th[p].pc \in {"get_wait", "rot_wait"}
    /\ ~Locked(lock)
    /\ lock' = p
    /\ th' = [th EXCEPT ![p].pc = IF th[p].pc = "get_wait" THEN "get_in" ELSE "rot_in"]
    /\ UNCHANGED <<api_key_index, last_saved_image, files, now, calls, rot, sweep,
                   plugin, cmds, rate>>

\* lines 22-25, and the lock is released
UserGet(p) ==
    /\ th[p].pc = "get_in"
    /\ th' = [th EXCEPT ![p].pc = "idle",
                        ![p].got = get_next_api_key(rot.keys, api_key_index)]
    /\ lock' = "free"
    /\ UNCHANGED <<api_key_index, last_saved_image, files, now, calls, rot, sweep,
                   plugin, cmds, rate>>

\* line 31, right-hand side: self.api_key_index is read
UserRotateRead(p) ==
    /\ th[p].pc = "rot_in"
    /\ th' = [th EXCEPT ![p].pc = "rot_write", ![p].local = api_key_index]
    /\ UNCHANGED <<api_key_index, last_saved_image, files, now, calls, rot, lock,
                   sweep, plugin, cmds, rate>>

\* lines 30-32: self.api_key_index is assigned, and the lock is released
UserRotateWrite(p) ==
    /\ th[p].pc = "rot_write"
    /\ api_key_index' =
          IF Len(rot.keys) > 1 THEN rotate_to_next_api_key(rot.keys, th[p].local)
          ELSE api_key_index
    /\ rot' = [rot EXCEPT !.n = @ + 1]
    /\ th' = [th EXCEPT ![p].pc = "idle", ![p].rotated = @ + 1]
    /\ lock' = "free"
    /\ UNCHANGED <<last_saved_image, files, now, calls, sweep, plugin, cmds, rate>>

SharedNext ==
    \/ \E p \in Calls : UserCall(p)
    \/ \E p \in Calls : UserAcquire(p)
    \/ \E p \in Calls : UserGet(p)
    \/ \E p \in Calls : UserRotateRead(p)
    \/ \E p \in Calls : UserRotateWrite(p)

SpecShared == RotatorInit /\ [][SharedNext]_vars

(* ------------------ one call that fails attempt after attempt ---------- *)

\* the responses that end an attempt without an image
FailedResponses == {r \in Responses : r.exc # "none" \/ r.status # 200}

BackoffStart ==
    StartWith("c1", {PyStr(<<"a">>), PyStr(<<"a", ",", "b">>)}, {PyStr(<<"openai">>)},
              0..MaxBackoff)

BackoffRespond == RespondWith("c1", FailedResponses)

BackoffNext == BackoffStart \/ Wake("c1") \/ BackoffRespond

SpecBackoff == Init /\ [][BackoffNext]_vars

(* ------------- concurrent calls whose every await completes ------------ *)

\* a failure of each kind, an answer without an image, a url and a data URI
LiveResponses ==
    { Response("ClientError", 0, NoBody),
      Response("none", 500, JsonBody("dict", "absent", NoContent, NoData, "dict")),
      Response("none", 200, OkBody(NoContent, NoData)),
      Response("none", 200,
               OkBody(StrContent(<<"Here:", " ">> \o UrlText \o <<" ", "more">>), NoData)),
      Response("none", 200, OkBody(StrContent(DataUrlText("jpeg", "QQ==")), NoData)) }

LiveStart(p) ==
    StartWith(p, {PyNone, PyStr(<<"a", ",", "b">>)}, {PyStr(<<"openai">>)}, RetryArgs)

LiveRespond(p) == RespondWith(p, LiveResponses)

LiveNext ==
    \/ \E p \in Calls : LiveStart(p)
    \/ \E p \in Calls : Wake(p)
    \/ \E p \in Calls : LiveRespond(p)
    \/ \E p \in Calls : Download(p)
    \/ \E p \in Calls : DownloadWrite(p)
    \/ \E p \in Calls : Base64Write(p)

(* asyncio.sleep, session.post, session.get and the file writes of a call *)
(* complete: the event loop resumes every coroutine whose await is over   *)
Fairness ==
    \A p \in Calls :
        /\ WF_vars(Wake(p))
        /\ WF_vars(LiveRespond(p))
        /\ WF_vars(Download(p))
        /\ WF_vars(DownloadWrite(p))
        /\ WF_vars(Base64Write(p))

SpecLive == Init /\ [][LiveNext]_vars /\ Fairness

(* ------------------------ the plugin's command gate -------------------- *)

\* main.py lines 223-227: event.get_group_id(), None when the event has none
GroupIdOf(event) == IF event.has_group THEN event.group_id ELSE PyNone

\* `gid in self.group_filter_list`
InList(gid, list) == \E i \in 1..Len(list) : list[i] = gid

\* the mutant of is_group_allowed: the list test runs before the group test
is_group_allowed_list_first(event, group_filter_mode, group_filter_list) ==
    LET gid == str(GroupIdOf(event))
        mode == IF group_filter_mode = <<>> THEN <<"none">> ELSE group_filter_mode
    IN  CASE mode = <<"whitelist">> -> InList(gid, group_filter_list)
          [] mode = <<"blacklist">> -> ~InList(gid, group_filter_list)
          [] OTHER -> TRUE

\* main.py lines 214-251, _is_group_allowed
is_group_allowed(event, group_filter_mode, group_filter_list) ==
    LET group_id == GroupIdOf(event)
        gid == str(group_id)
        mode == IF group_filter_mode = <<>> THEN <<"none">> ELSE group_filter_mode
    IN  IF ~truthy(group_id) THEN TRUE
        ELSE CASE mode = <<"whitelist">> -> InList(gid, group_filter_list)
               [] mode = <<"blacklist">> -> ~InList(gid, group_filter_list)
               [] OTHER -> TRUE

\* `self._rate_limit_state.get(gid, (now, 0))`
RateEntry(state, gid, t) == IF gid \in DOMAIN state THEN state[gid] ELSE <<t, 0>>

\* the mutant of RateStore: the write replaces the whole table
RateStoreAlone(state, gid, window_start, count) ==
    [g \in {gid} |-> <<window_start, count>>]

\* main.py line 290: self._rate_limit_state[gid] = (window_start, count)
RateStore(state, gid, window_start, count) ==
    [g \in (DOMAIN state) \cup {gid} |->
        IF g = gid THEN <<window_start, count>> ELSE state[g]]

\* the mutant of LimitReached: one call more than the limit passes
LimitReachedLate(count, max_calls) == count > max_calls

\* main.py line 282: count >= self.rate_limit_max_calls_per_group
LimitReached(count, max_calls) == count >= max_calls

(* main.py lines 253-291, _check_and_consume_rate_limit: the answer, the   *)
(* table after the call, whether the table was consulted, and the window   *)
(* the call was counted in                                                 *)
check_and_consume_rate_limit(state, event, t, max_calls, period) ==
    LET group_id == GroupIdOf(event)
        gid == str(group_id)
        entry == RateEntry(state, gid, t)
        expired == t - entry[1] >= period
        window_start == IF expired THEN t ELSE entry[1]
        count == IF expired THEN 0 ELSE entry[2]
    IN  IF max_calls <= 0 \/ period <= 0
        THEN [ok |-> TRUE, state |-> state, counted |-> FALSE, window |-> 0]
        ELSE IF ~truthy(group_id)
        THEN [ok |-> TRUE, state |-> state, counted |-> FALSE, window |-> 0]
        ELSE IF LimitReached(count, max_calls)
        THEN [ok |-> FALSE, state |-> state, counted |-> FALSE, window |-> window_start]
        ELSE [ok |-> TRUE, state |-> RateStore(state, gid, window_start, count + 1),
              counted |-> TRUE, window |-> window_start]

\* the events a command can come with: private chats, groups, no group API
GroupIds == {PyNone, PyStr(<<>>), PyStr(<<"g1">>), PyStr(<<"g2">>), PyInt(<<"5">>)}
Events ==
    {[has_group |-> TRUE, group_id |-> g] : g \in GroupIds}
    \cup {[has_group |-> FALSE, group_id |-> PyNone]}

\* main.py line 34: group_filter_mode after str().strip().lower()
FilterModes == {<<>>, <<"none">>, <<"whitelist">>, <<"blacklist">>, <<"allow">>}

\* main.py line 35: group_filter_list after _normalize_id_list
FilterLists == {<<>>, <<<<"g1">>>>, <<<<"g2">>, <<"5">>>>, <<<<"g1">>, <<"g2">>>>}

(* ------------------- _is_group_allowed called directly ----------------- *)

\* main.py lines 34-35: the plugin with every filter configuration
FilterInit ==
    /\ \E mode \in FilterModes, list \in FilterLists :
          plugin = [NoPlugin EXCEPT !.group_filter_mode = mode,
                                    !.group_filter_list = list]
    /\ api_key_index = 0
    /\ last_saved_image = [url |-> None, path |-> None]
    /\ files = {}
    /\ now = 0
    /\ calls = [p \in Calls |-> IdleCall]
    /\ rot = NoRotator
    /\ lock = "free"
    /\ th = [p \in Calls |-> IdleUser]
    /\ sweep = NoSweep
    /\ cmds = [m \in Commands |-> NoCommand]
    /\ rate = NoRate

\* main.py lines 214-251: one event is put to _is_group_allowed
FilterAsk(m) ==
    /\ cmds[m].pc = "new"
    /\ \E event \in Events :
          cmds' = [cmds EXCEPT ![m] =
                      [@ EXCEPT !.pc = "done", !.event = event,
                                !.allowed = is_group_allowed(event,
                                                plugin.group_filter_mode,
                                                plugin.group_filter_list)]]
    /\ UNCHANGED <<api_key_index, last_saved_image, files, now, calls, rot, lock, th,
                   sweep, plugin, rate>>

FilterNext == FilterAsk("m1")

SpecFilter == FilterInit /\ [][FilterNext]_vars

(* ------------- _check_and_consume_rate_limit called directly ----------- *)

\* main.py lines 38-39: the limits after int(... or 0) and int(... or 60)
RateMaxima == 0..MaxCalls
RatePeriods == {-1, MaxClock - 2}

\* main.py lines 38-42: the plugin with every limit, its table empty
RateInit ==
    /\ \E max_calls \in RateMaxima, period \in RatePeriods :
          plugin = [NoPlugin EXCEPT !.rate_limit_max_calls_per_group = max_calls,
                                    !.rate_limit_period_seconds = period]
    /\ api_key_index = 0
    /\ last_saved_image = [url |-> None, path |-> None]
    /\ files = {}
    /\ now = 0
    /\ calls = [p \in Calls |-> IdleCall]
    /\ rot = NoRotator
    /\ lock = "free"
    /\ th = [p \in Calls |-> IdleUser]
    /\ sweep = NoSweep
    /\ cmds = [m \in Commands |-> NoCommand]
    /\ rate = NoRate

(* main.py lines 253-291: one event is put to the limiter. Nothing in the *)
(* function suspends: the lock is free whenever it is asked for, because   *)
(* no holder awaits inside lines 275-291.                                  *)
RateAsk(m) ==
    /\ cmds[m].pc = "new"
    /\ \E event \in Events :
          LET r == check_and_consume_rate_limit(rate, event, now,
                       plugin.rate_limit_max_calls_per_group,
                       plugin.rate_limit_period_seconds)
          IN  /\ cmds' = [cmds EXCEPT ![m] =
                             [@ EXCEPT !.pc = "done", !.event = event,
                                       !.checked = TRUE, !.admitted = r.ok,
                                       !.at = now, !.window = r.window]]
              /\ rate' = r.state
    /\ UNCHANGED <<api_key_index, last_saved_image, files, now, calls, rot, lock, th,
                   sweep, plugin>>

\* main.py line 273: time.time() moves on between two calls
RateTick ==
    /\ now < MaxClock
    /\ now' = now + 1
    /\ UNCHANGED <<api_key_index, last_saved_image, files, calls, rot, lock, th,
                   sweep, plugin, cmds, rate>>

RateNext == (\E m \in Commands : RateAsk(m)) \/ RateTick

SpecRate == RateInit /\ [][RateNext]_vars

(* --------------------------- the three commands ------------------------ *)

\* the handlers that run concurrently
CmdSlots == {"m1", "m2"}

\* generate_image_command, figure_transform, edit_image_command
Kinds == {"generate", "figure", "edit"}

\* the per-step view of the plugin: the handler, the plugin and the table
PluginWorld(m) == [c |-> cmds[m], plugin |-> plugin, rate |-> rate]

\* a handler yields its last result (or none) and returns
Reply(pw, reply) == [pw EXCEPT !.c.pc = "done", !.c.reply = reply]

(* main.py lines 130-147: without keys the provider returns (None, None)  *)
(* and the command answers with the failure message (lines 335-339);      *)
(* otherwise generate_image_openai is awaited                             *)
ProviderCall(pw) ==
    IF pw.plugin.openai_api_keys = <<>>
    THEN Reply(pw, "failure")
    ELSE [pw EXCEPT !.c.pc = "generating", !.c.generations = @ + 1]

(* main.py lines 127-128 and 50-54: _load_global_config returns at once   *)
(* when the flag is set, and otherwise awaits sp.global_get               *)
Provider(pw) ==
    IF pw.plugin.loaded
    THEN ProviderCall(pw)
    ELSE [pw EXCEPT !.c.pc = "fetching", !.plugin.fetches = @ + 1]

\* what sp.global_get gives: an exception, or a dictionary
FetchOutcomes ==
    {[raised |-> TRUE, has_key |-> FALSE, value |-> PyNone],
     [raised |-> FALSE, has_key |-> FALSE, value |-> PyNone],
     [raised |-> FALSE, has_key |-> TRUE, value |-> PyNone],
     [raised |-> FALSE, has_key |-> TRUE, value |-> PyStr(<<"b">>)]}

(* main.py lines 56-87 and 130-147: the fetched dictionary overwrites the *)
(* configuration, the flag is set (also when the fetch raised), and the   *)
(* provider goes on                                                       *)
HandleFetched(pw, outcome) ==
    LET applied ==
            IF outcome.raised THEN pw.plugin
            ELSE IF outcome.has_key
            THEN [pw.plugin EXCEPT !.value = outcome.value,
                                   !.openai_api_keys = normalize_api_keys(outcome.value),
                                   !.applied = @ + 1]
            ELSE [pw.plugin EXCEPT !.applied = @ + 1]
    IN  ProviderCall([pw EXCEPT !.plugin = [applied EXCEPT !.loaded = TRUE]])

(* main.py lines 320, 381-405, 492-528: the command has nothing to work   *)
(* on: /生图 without a description, the image commands without an image   *)
NeedsArgument(kind, args) == ~args

(* main.py lines 306-326, 379-411, 486-535: after the limiter the         *)
(* arguments are validated; the image commands await convert_to_base64    *)
AfterLimiter(pw, kind, args) ==
    IF NeedsArgument(kind, args)
    THEN Reply(pw, "usage")
    ELSE IF kind = "generate"
    THEN Provider(pw)
    ELSE [pw EXCEPT !.c.pc = "converting"]

\* the mutant of AfterFilter: the arguments are validated before the limiter
AfterFilterValidateFirst(pw, kind, args, t) ==
    LET r == check_and_consume_rate_limit(pw.rate, pw.c.event, t,
                 pw.plugin.rate_limit_max_calls_per_group,
                 pw.plugin.rate_limit_period_seconds)
        asked == [pw EXCEPT !.c.checked = TRUE, !.c.admitted = r.ok, !.c.at = t,
                            !.c.window = r.window, !.rate = r.state]
    IN  IF NeedsArgument(kind, args)
        THEN Reply([pw EXCEPT !.c.checked = TRUE, !.c.admitted = TRUE, !.c.at = t],
                   "usage")
        ELSE IF ~r.ok THEN Reply(asked, "rate_limit")
        ELSE AfterLimiter(asked, kind, args)

(* main.py lines 303-305, 375-377, 483-485: the limiter is asked; a       *)
(* rejected command yields the rate-limit message and returns             *)
AfterFilter(pw, kind, args, t) ==
    LET r == check_and_consume_rate_limit(pw.rate, pw.c.event, t,
                 pw.plugin.rate_limit_max_calls_per_group,
                 pw.plugin.rate_limit_period_seconds)
        asked == [pw EXCEPT !.c.checked = TRUE, !.c.admitted = r.ok, !.c.at = t,
                            !.c.window = r.window, !.rate = r.state]
    IN  IF ~r.ok THEN Reply(asked, "rate_limit")
        ELSE AfterLimiter(asked, kind, args)

\* the mutant of HandleArrive: the group filter is not asked
HandleArriveUnfiltered(pw0, kind, event, args, t) ==
    AfterFilter([pw0 EXCEPT !.c.kind = kind, !.c.event = event, !.c.args = args,
                            !.c.allowed = TRUE],
                kind, args, t)

(* main.py lines 300-301, 372-373, 480-481: the group filter is asked     *)
(* first; a filtered command returns without a reply                      *)
HandleArrive(pw0, kind, event, args, t) ==
    LET allowed == is_group_allowed(event, pw0.plugin.group_filter_mode,
                                    pw0.plugin.group_filter_list)
        pw == [pw0 EXCEPT !.c.kind = kind, !.c.event = event, !.c.args = args,
                          !.c.allowed = allowed]
    IN  IF ~allowed THEN Reply(pw, "none")
        ELSE AfterFilter(pw, kind, args, t)

(* main.py lines 381-409, 492-530: the conversions are over; with no      *)
(* converted image the usage message is sent                              *)
HandleConverted(pw, converted) ==
    IF ~converted THEN Reply(pw, "usage") ELSE Provider(pw)

\* what the generation and the sending of its image come to
GenerationOutcomes == {"image", "none", "raise"}

(* main.py lines 335-364, 442-467, 537-562: the failure message for       *)
(* (None, None), the image, or the message of an exception raised while   *)
(* the image is sent                                                      *)
HandleGenerated(pw, outcome) ==
    CASE outcome = "none" -> Reply(pw, "failure")
      [] outcome = "image" -> Reply(pw, "image")
      [] OTHER -> Reply(pw, "error")

CommitPlugin(m, pw) ==
    /\ cmds' = [cmds EXCEPT ![m] = pw.c]
    /\ plugin' = pw.plugin
    /\ rate' = pw.rate
    /\ UNCHANGED <<api_key_index, last_saved_image, files, now, calls, rot, lock, th,
                   sweep>>

\* the events of the commands: a private chat and two groups
CmdEvents ==
    {[has_group |-> TRUE, group_id |-> g] :
        g \in {PyStr(<<>>), PyStr(<<"g1">>), PyStr(<<"g2">>)}}

\* main.py lines 14-46: the plugin of the commands, a whitelist of one group
CmdInit ==
    /\ \E max_calls \in {0, 1} :
          plugin = [NoPlugin EXCEPT !.value = PyStr(<<"a">>),
                                    !.openai_api_keys = normalize_api_keys(PyStr(<<"a">>)),
                                    !.group_filter_mode = <<"whitelist">>,
                                    !.group_filter_list = <<<<"g1">>>>,
                                    !.rate_limit_max_calls_per_group = max_calls,
                                    !.rate_limit_period_seconds = MaxClock - 2]
    /\ api_key_index = 0
    /\ last_saved_image = [url |-> None, path |-> None]
    /\ files = {}
    /\ now = 0
    /\ calls = [p \in Calls |-> IdleCall]
    /\ rot = NoRotator
    /\ lock = "free"
    /\ th = [p \in Calls |-> IdleUser]
    /\ sweep = NoSweep
    /\ cmds = [m \in Commands |-> NoCommand]
    /\ rate = NoRate

\* a command arrives and runs to its first suspension or to its end
Arrive(m) ==
    /\ cmds[m].pc = "new"
    /\ \E kind \in Kinds, event \in CmdEvents, args \in BOOLEAN :
          CommitPlugin(m, HandleArrive(PluginWorld(m), kind, event, args, now))

\* convert_to_base64 is over for every image of the message
Converted(m) ==
    /\ cmds[m].pc = "converting"
    /\ \E converted \in BOOLEAN :
          CommitPlugin(m, HandleConverted(PluginWorld(m), converted))

\* sp.global_get is over
Fetched(m) ==
    /\ cmds[m].pc = "fetching"
    /\ \E outcome \in FetchOutcomes :
          CommitPlugin(m, HandleFetched(PluginWorld(m), outcome))

\* generate_image_openai and the sending of its image are over
Generated(m) ==
    /\ cmds[m].pc = "generating"
    /\ \E outcome \in GenerationOutcomes :
          CommitPlugin(m, HandleGenerated(PluginWorld(m), outcome))

\* main.py line 273: time.time() a whole period later
CmdTick ==
    /\ now + plugin.rate_limit_period_seconds <= MaxClock
    /\ now' = now + plugin.rate_limit_period_seconds
    /\ UNCHANGED <<api_key_index, last_saved_image, files, calls, rot, lock, th,
                   sweep, plugin, cmds, rate>>

CmdNext ==
    \/ \E m \in CmdSlots : Arrive(m)
    \/ \E m \in CmdSlots : Converted(m)
    \/ \E m \in CmdSlots : Fetched(m)
    \/ \E m \in CmdSlots : Generated(m)
    \/ CmdTick

SpecCommands == CmdInit /\ [][CmdNext]_vars

(* ------------------------------- claims ------------------------------- *)

NonePair == <<None, None>>

\* the image reference lines 345-408 take from a response
Extracted(r) == DataFallback(ExtractFromContent(r.body.content), r.body.data)

\* status 200, a non-empty well-formed choices list, and no image reference
EmptyButValid(r) ==
    /\ r.exc = "none" /\ r.status = 200
    /\ r.body.top = "dict" /\ r.body.choices = "ok"
    /\ Extracted(r).image_url = None
    /\ Extracted(r).base64_string = None

(* C1: a call with at least one key and max_retry_attempts = M >= 1 whose *)
(* every request is answered with a status other than 200 rotates once    *)
(* after each failed attempt and, when it has returned, has sent exactly  *)
(* M requests, called rotate_to_next_api_key exactly M times and returned *)
(* (None, None).                                                           *)
C1_AllNon200Exhausts ==
    \A p \in Calls :
        LET c == calls[p] IN
        (c.pc \notin {"idle", "post"} /\ c.api_keys # <<>> /\ c.max_retry_attempts >= 1
         /\ c.only_non200)
        => /\ c.rotations = c.retry_attempt
           /\ c.pc = "done" =>
                /\ c.requests = c.max_retry_attempts
                /\ c.rotations = c.max_retry_attempts
                /\ c.result = NonePair

C1_Witness ==
    \E p \in Calls :
        /\ calls[p].pc = "done" /\ calls[p].only_non200
        /\ calls[p].max_retry_attempts = MaxRetry
        /\ calls[p].requests = MaxRetry /\ calls[p].rotations = MaxRetry

(* C2: when the first response is 200 with a non-empty choices list and   *)
(* no image reference, the call has returned (None, None) after that one  *)
(* request: no second attempt, no sleep, no rotation.                      *)
C2_EmptyResponseNotRetried ==
    \A p \in Calls :
        LET c == calls[p] IN
        (c.requests = 1 /\ EmptyButValid(c.resp))
        => /\ c.pc = "done" /\ c.result = NonePair
           /\ c.retry_attempt = 0 /\ c.sleeps = 0 /\ c.rotations = 0

C2_Witness ==
    \E p \in Calls :
        /\ calls[p].pc = "done" /\ calls[p].max_retry_attempts = MaxRetry
        /\ calls[p].requests = 1 /\ EmptyButValid(calls[p].resp)
        /\ calls[p].resp.body.content.t = "str"

(* C3, as claimed: after the image GET answered with a status other than  *)
(* 200, the call has not returned while attempts remain.                   *)
C3_DownloadFailureRetried ==
    \A p \in Calls :
        LET c == calls[p] IN
        (c.dl = "non200" /\ c.retry_attempt + 1 < c.max_retry_attempts)
        => c.pc # "done"

(* C4, as claimed: after save_base64_image returned False (decode error   *)
(* or write error), the call has not returned while attempts remain.      *)
C4_SaveFailureRetried ==
    \A p \in Calls :
        LET c == calls[p] IN
        (c.save \in {"decode_error", "io_error"}
         /\ c.retry_attempt + 1 < c.max_retry_attempts)
        => c.pc # "done"

(* C5: a call whose normalized key list is empty returns (None, None) in  *)
(* its first step: no request, no sleep, no loop iteration, no rotation,  *)
(* and that step leaves the cursor and the Saved Image Record unchanged.  *)
C5_NoKeysState ==
    \A p \in Calls :
        LET c == calls[p] IN
        (c.pc # "idle" /\ c.api_keys = <<>>)
        => /\ c.pc = "done" /\ c.result = NonePair
           /\ c.requests = 0 /\ c.sleeps = 0
           /\ c.retry_attempt = 0 /\ c.rotations = 0

C5_NoKeysStep ==
    \A p \in Calls :
        (calls[p].pc = "idle" /\ calls'[p].pc # "idle" /\ calls'[p].api_keys = <<>>)
        => UNCHANGED <<api_key_index, last_saved_image, files>>

C5_NoKeysReturnsAtOnce == []C5_NoKeysState /\ [][C5_NoKeysStep]_vars

C5_Witness ==
    \E p \in Calls :
        /\ calls[p].pc = "done" /\ calls[p].api_keys = <<>>
        /\ calls[p].api_key.t = "list" /\ calls[p].max_retry_attempts = MaxRetry
        /\ api_key_index # 0 /\ last_saved_image.path # None

(* C6: the pair a call holds as its result has both components None or    *)
(* both not None, in every state and so on every return path.              *)
C6_NoPartialResult ==
    \A p \in Calls :
        /\ Len(calls[p].result) = 2
        /\ (calls[p].result[1] = None) <=> (calls[p].result[2] = None)

C6_Witness ==
    /\ \E p \in Calls : calls[p].pc = "done" /\ calls[p].via = "direct"
                        /\ calls[p].result[2] # None
    /\ \E p \in Calls : calls[p].pc = "done" /\ calls[p].via = "record"
                        /\ calls[p].result[2] # None

(* C7: no provider behaviour makes an exception leave the call: a call is *)
(* never in "raised", and a call that ended holds a result pair.           *)
C7_NoExceptionEscapes ==
    \A p \in Calls :
        /\ calls[p].pc # "raised"
        /\ calls[p].raised = "none"

C7_Witness ==
    /\ \E p \in Calls : calls[p].pc = "done" /\ calls[p].resp.exc = "JSONDecodeError"
                        /\ calls[p].result = NonePair
    /\ \E p \in Calls : calls[p].pc = "done" /\ calls[p].resp.body.choices = "bad"

(* C8, as claimed: the pair a call returns names the file this call wrote *)
(* and was not read from the Saved Image Record.                           *)
C8_ResultNotFromRecord ==
    \A p \in Calls :
        (calls[p].pc = "done" /\ calls[p].result # NonePair)
        => /\ calls[p].result[2][2] = p
           /\ calls[p].via = "direct"

(* C9: with a fixed list of N keys and any starting cursor: for N > 1,    *)
(* get_next_api_key after a multiple of N rotations gives the first key   *)
(* again, and after fewer than N a different one; for N = 1 it always     *)
(* gives the same key; for N = 0 rotation leaves the cursor alone and     *)
(* get_next_api_key raises ValueError.                                     *)
C9_RotationCyclic ==
    LET N == Len(rot.keys) IN
    /\ N > 1 =>
         /\ rot.got.exc = "none"
         /\ (rot.got_n % N = 0) <=> (rot.got = rot.first)
    /\ N = 1 => rot.got = rot.first /\ rot.got.exc = "none"
    /\ N = 0 => rot.got.exc = "ValueError" /\ api_key_index = rot.start

C9_Witness ==
    /\ Len(rot.keys) = 3 /\ rot.start = 2
    /\ rot.n = 3 /\ rot.got_n = 3 /\ rot.got = rot.first

(* C10: the cursor starts at 0 and a step changes it only when a call's   *)
(* attempt failed in that step, to (cursor + 1) mod the length of that    *)
(* call's list of more than one key.                                       *)
C10_CursorStep ==
    api_key_index' # api_key_index
    => \E p \in Calls :
          /\ calls'[p].retry_attempt = calls[p].retry_attempt + 1
          /\ Len(calls[p].api_keys) > 1
          /\ api_key_index' = (api_key_index + 1) % Len(calls[p].api_keys)

C10_CursorMovesOnlyOnFailure == (api_key_index = 0) /\ [][C10_CursorStep]_vars

C10_Witness ==
    /\ api_key_index = 1
    /\ \E p \in Calls : calls[p].pc = "done" /\ calls[p].retry_attempt = 1
    /\ \E p \in Calls : calls[p].pc = "done" /\ calls[p].retry_attempt = 0
                        /\ calls[p].result # NonePair

(* C11: callers sharing the rotator with one list of N > 1 keys, in any   *)
(* interleaving: after k completed rotate_to_next_api_key calls in total  *)
(* the cursor is congruent to (initial cursor + k) mod N, and equals it   *)
(* when the initial cursor is an index of the list; every completed       *)
(* get_next_api_key gave an element of the list.                           *)
C11_RotationsSerialized ==
    LET N == Len(rot.keys) IN
    N > 1 =>
        /\ api_key_index % N = (rot.start + rot.n) % N
        /\ rot.start < N => api_key_index = (rot.start + rot.n) % N
        /\ \A p \in Calls :
              th[p].got.exc # "unset" =>
                  /\ th[p].got.exc = "none"
                  /\ \E i \in 1..N : th[p].got.key = rot.keys[i]

C11_Witness ==
    /\ Len(rot.keys) = 3 /\ rot.start = 1 /\ rot.n = 4
    /\ lock = "c1" /\ th["c1"].pc = "rot_write" /\ th["c2"].pc = "rot_wait"
    /\ th["c1"].rotated >= 1 /\ th["c2"].rotated >= 1
    /\ th["c2"].got.exc = "none"

\* the position of key in the list api_keys (of distinct keys)
KeyPos(api_keys, key) == (CHOOSE i \in 1..Len(api_keys) : api_keys[i] = key) - 1

(* C12, as claimed: in a call with K > 1 keys, when an attempt made with  *)
(* the key at position i has failed and a further attempt begins, that    *)
(* attempt uses the key at position (i + 1) mod K, whatever other calls   *)
(* did to the cursor meanwhile.                                            *)
C12_Step ==
    \A p \in Calls :
        LET c == calls[p]
            d == calls'[p]
            K == Len(c.api_keys)
        IN  (K > 1 /\ d.retry_attempt = c.retry_attempt + 1 /\ d.pc = "sleep")
            => KeyPos(d.api_keys, d.current_key)
                 = (KeyPos(c.api_keys, c.current_key) + 1) % K

C12_NextKeyInListOrder == [][C12_Step]_vars

\* the commas of s, and the indexes where a comma-separated segment starts
CommaAt(s) == {i \in 1..Len(s) : s[i] = ","}
SegmentStarts(s) == {1} \cup {i + 1 : i \in CommaAt(s)}
\* the segment of s that starts at index a
SegmentAt(s, a) ==
    LET ends == {i \in CommaAt(s) : i >= a} \cup {Len(s) + 1}
        e == CHOOSE i \in ends : \A j \in ends : i <= j
    IN  SubSeq(s, a, e - 1)
\* s without its leading and trailing whitespace
Trimmed(s) ==
    LET solid == {i \in 1..Len(s) : s[i] # " "} IN
    IF solid = {} THEN <<>>
    ELSE SubSeq(s, CHOOSE i \in solid : \A j \in solid : i <= j,
                   CHOOSE i \in solid : \A j \in solid : i >= j)
NonEmptyText(k) == k # <<>>
\* what the claim says _normalize_api_keys returns for value
ExpectedKeys(value) ==
    CASE value.t = "None" -> <<>>
      [] value.t = "str" ->
            SelectSeq([a \in 1..(Len(value.s) + 1) |->
                          IF a \in SegmentStarts(value.s)
                          THEN Trimmed(SegmentAt(value.s, a)) ELSE <<>>],
                      NonEmptyText)
      [] value.t = "list" ->
            SelectSeq([i \in 1..Len(value.items) |->
                          IF value.items[i].t = "None" THEN <<>>
                          ELSE Trimmed(value.items[i].s)],
                      NonEmptyText)
      [] OTHER -> <<>>

(* C13: the key list the plugin holds is what the claim gives for the     *)
(* configured value: [] for None; the trimmed non-empty comma-separated   *)
(* segments of a string, in order; the trimmed non-empty strings of the   *)
(* non-None elements of a list, in order; no entry is empty or only       *)
(* whitespace; "a, b,, c" gives [a, b, c] and ["a", 5, None] gives [a, 5]. *)
C13_NormalizedKeys ==
    /\ plugin.openai_api_keys = ExpectedKeys(plugin.value)
    /\ \A i \in 1..Len(plugin.openai_api_keys) :
          \E j \in 1..Len(plugin.openai_api_keys[i]) :
              plugin.openai_api_keys[i][j] # " "
    /\ plugin.value = PyStr(ExampleKeyText)
          => plugin.openai_api_keys = <<<<"a">>, <<"b">>, <<"c">>>>
    /\ plugin.value = PyList(<<PyStr(<<"a">>), PyInt(<<"5">>), PyNone>>)
          => plugin.openai_api_keys = <<<<"a">>, <<"5">>>>

C13_Witness ==
    /\ plugin.loaded
    /\ plugin.value = PyList(<<PyStr(<<"a">>), PyInt(<<"5">>), PyNone>>)
    /\ plugin.openai_api_keys = <<<<"a">>, <<"5">>>>

\* text is empty or only whitespace
Blank(text) == \A i \in 1..Len(text) : text[i] = " "

\* the api_key argument holds no key that is neither empty nor whitespace
NoUsableKey(api_key) ==
    CASE api_key.t = "None" -> TRUE
      [] api_key.t = "list" ->
            \A i \in 1..Len(api_key.items) : Blank(str(api_key.items[i]))
      [] OTHER -> Blank(api_key.s)

(* C14, as claimed: no request is sent with an empty bearer credential,   *)
(* and a call whose api_key argument holds no non-empty key has returned  *)
(* (None, None) without a request.                                         *)
C14_NoEmptyCredential ==
    \A p \in Calls :
        LET c == calls[p] IN
        c.pc # "idle" =>
            /\ c.requests > 0 => ~Blank(c.current_key)
            /\ NoUsableKey(c.api_key) =>
                  c.pc = "done" /\ c.result = NonePair /\ c.requests = 0

(* C18, as claimed: in the contents (gemini) mode, a first response with  *)
(* status 200 and a non-empty candidates list is not counted as a failed  *)
(* attempt: no rotation and no further attempt follow it.                  *)
C18_CandidatesAccepted ==
    \A p \in Calls :
        LET c == calls[p] IN
        (c.payload = "contents" /\ c.requests = 1 /\ c.resp.exc = "none"
         /\ c.resp.status = 200 /\ c.resp.body.candidates = "ok")
        => c.rotations = 0 /\ c.retry_attempt = 0

\* the least element of a non-empty set of numbers
Least(S) == CHOOSE i \in S : \A j \in S : i <= j

\* the call's post was answered 200 with a well-formed choices[0].message
Answered(c) ==
    /\ c.resp.exc = "none" /\ c.resp.status = 200
    /\ c.resp.body.top = "dict" /\ c.resp.body.choices = "ok"

(* What the four rules, taken in order, give for the stripped text: (a) a *)
(* text that starts with data:image/ is split at its first comma, and     *)
(* gives nothing when it has none; (b) a text that starts with http:// or *)
(* https:// is the URL; (c) the leftmost embedded data URI; (d) the       *)
(* leftmost embedded URL.                                                  *)
RuleResult(text) ==
    LET commas == {i \in 1..Len(text) : text[i] = ","}
        datas == {i \in 1..Len(text) : DataUrlAt(text, i) # <<>>}
        urls == {i \in 1..(Len(text) - 1) :
                    text[i] \in {"http://", "https://"} /\ text[i + 1] \notin {" ", ")"}}
    IN  IF text # <<>> /\ text[1] = "data:image/"
        THEN IF commas = {} THEN NoImage
             ELSE [image_url |-> None,
                   image_format |-> FormatRun(SubSeq(text, 2, Least(commas) - 1)),
                   base64_string |-> SubSeq(text, Least(commas) + 1, Len(text))]
        ELSE IF text # <<>> /\ text[1] \in {"http://", "https://"}
        THEN [image_url |-> text, image_format |-> <<"png">>, base64_string |-> None]
        ELSE IF datas # {}
        THEN LET m == DataUrlAt(text, Least(datas))
                 k == Least({i \in 1..Len(m) : m[i] = ","})
             IN  [image_url |-> None, image_format |-> SubSeq(m, 2, k - 2),
                  base64_string |-> SubSeq(m, k + 1, Len(m))]
        ELSE IF urls # {}
        THEN [image_url |-> <<text[Least(urls)]>> \o UrlRun(text, Least(urls) + 1),
              image_format |-> <<"png">>, base64_string |-> None]
        ELSE NoImage

(* C15 (amended): for a string content the result is that of the first of *)
(* the four rules that matches, where rule (a) gives (format, payload)    *)
(* only for a text with a comma and gives no image for a data:image/ text *)
(* without one; "Here: https://x/y.png more" gives the URL                *)
(* https://x/y.png and "data:image/jpeg;base64,QQ==" gives (jpeg, QQ==).  *)
C15_FirstRuleDecides ==
    /\ \A p \in Calls :
          LET c == calls[p] IN
          (Answered(c) /\ c.resp.body.content.t = "str") =>
              /\ ExtractFromString(c.resp.body.content.text)
                    = RuleResult(strip(c.resp.body.content.text))
              /\ (c.pc \in {"download", "b64write"} /\ c.resp.body.data.k = "absent")
                    => c.st = RuleResult(strip(c.resp.body.content.text))
    /\ ExtractFromString(<<"Here:", " ", "https://", "x/y.png", " ", "more">>)
          = [image_url |-> <<"https://", "x/y.png">>, image_format |-> <<"png">>,
             base64_string |-> None]
    /\ ExtractFromString(<<"data:image/", "jpeg", ";base64", ",", "QQ==">>)
          = [image_url |-> None, image_format |-> <<"jpeg">>,
             base64_string |-> <<"QQ==">>]

C15_Witness ==
    \E p \in Calls :
        /\ calls[p].pc = "b64write"
        /\ calls[p].resp.body.content.text
              = <<"Here:">> \o UrlText \o DataUrlText("jpeg", "QQ==")
        /\ calls[p].st.image_url = None
        /\ calls[p].st.base64_string = <<"QQ==">>

(* C15, as claimed: rule (a) gives a format and a payload for every text  *)
(* that starts with data:image/ (an empty payload after a final comma     *)
(* counts as given).                                                       *)
C15_DataPrefixGivesPayload ==
    \A p \in Calls :
        LET c == calls[p]
            text == strip(c.resp.body.content.text)
        IN  (Answered(c) /\ c.resp.body.content.t = "str"
             /\ text # <<>> /\ text[1] = "data:image/")
            => \/ ExtractFromString(c.resp.body.content.text).base64_string # None
               \/ text[Len(text)] = ","

(* C16, as claimed: after extraction image_url and base64_string are      *)
(* never both set.                                                         *)
C16_AtMostOneReference ==
    \A p \in Calls :
        calls[p].pc \in {"download", "dlwrite", "b64write"}
        => ~(calls[p].st.image_url # None /\ calls[p].st.base64_string # None)

\* the entry carries a non-empty image reference
CarriesReference(item) ==
    /\ item.type \in {"image_url", "output_image"}
    /\ Candidate(item) # <<>>
    /\ startswith(Candidate(item), "data:image/")
          => ParseDataUrl(NoImage, Candidate(item)).base64_string # None

\* the reference of an entry that carries one
ReferenceOf(item) ==
    IF startswith(Candidate(item), "data:image/")
    THEN ParseDataUrl(NoImage, Candidate(item))
    ELSE [image_url |-> Candidate(item), image_format |-> <<"png">>,
          base64_string |-> None]

(* C17, as claimed: for a list content the extracted reference is that of *)
(* the first entry that carries one, whatever the entries after it hold.  *)
C17_FirstEntryDecides ==
    \A p \in Calls :
        LET c == calls[p]
            items == c.resp.body.content.items
            with == {i \in 1..Len(items) : CarriesReference(items[i])}
        IN  (Answered(c) /\ c.resp.body.content.t = "list" /\ with # {}
             /\ c.pc \in {"download", "b64write"})
            => c.st = ReferenceOf(items[Least(with)])

SweptBy(p) ==
    \/ /\ calls'[p].pc \in {"b64write", "dlwrite"}
       /\ calls[p].pc \notin {"b64write", "dlwrite"}
    \/ /\ calls'[p].save = "decode_error"
       /\ calls[p].save # "decode_error"

(* C20, as claimed: after a step in which a call ran the cleanup sweep,   *)
(* the images directory holds no file written by the Image Store whose    *)
(* modification time is more than 15 minutes before the sweep.             *)
C20_Step ==
    (\E p \in Calls : SweptBy(p)) => \A f \in files' : ~(now - f.mtime > 15)

C20_NoStoredFileSurvives == [][C20_Step]_vars

\* the group an event names: no text when the event names none
GroupOf(event) ==
    IF event.has_group /\ event.group_id.t # "None" THEN event.group_id.s ELSE <<>>

Listed(g, list) == g \in {list[i] : i \in 1..Len(list)}

(* C28: _is_group_allowed answers True for every event without a group id  *)
(* whatever the mode; for an event with a group id it answers True in      *)
(* whitelist mode exactly when the id is in the filter list, in blacklist  *)
(* mode exactly when it is not, and True in every other mode.              *)
C28_GroupAllowed ==
    \A m \in Commands : cmds[m].pc = "done" =>
        LET g == GroupOf(cmds[m].event)
            mode == plugin.group_filter_mode
            list == plugin.group_filter_list
        IN  /\ g = <<>> => cmds[m].allowed
            /\ (g # <<>> /\ mode = <<"whitelist">>) =>
                   (cmds[m].allowed <=> Listed(g, list))
            /\ (g # <<>> /\ mode = <<"blacklist">>) =>
                   (cmds[m].allowed <=> ~Listed(g, list))
            /\ (g # <<>> /\ mode \notin {<<"whitelist">>, <<"blacklist">>}) =>
                   cmds[m].allowed

\* a private chat passes a whitelist that names other groups
C28_Witness ==
    /\ cmds["m1"].pc = "done"
    /\ GroupOf(cmds["m1"].event) = <<>>
    /\ plugin.group_filter_mode = <<"whitelist">>
    /\ plugin.group_filter_list # <<>>
    /\ cmds["m1"].allowed

\* rate limiting is enabled
Limiting ==
    /\ plugin.rate_limit_max_calls_per_group > 0
    /\ plugin.rate_limit_period_seconds > 0

\* the commands of group g that the limiter admitted in the window begun at w
AdmittedIn(g, w) ==
    {m \in Commands : /\ cmds[m].checked /\ cmds[m].admitted
                      /\ GroupOf(cmds[m].event) = g /\ cmds[m].window = w}

(* C22: with rate limiting enabled, the count stored for a group never     *)
(* exceeds the maximum, at most the maximum of a group's commands are      *)
(* admitted within one window, each of them before the window's period has *)
(* elapsed, and a command without a group id is always admitted.           *)
C22_RateBounded ==
    Limiting =>
        /\ \A g \in DOMAIN rate :
              rate[g][2] <= plugin.rate_limit_max_calls_per_group
        /\ \A m \in Commands : cmds[m].checked =>
              /\ GroupOf(cmds[m].event) = <<>> => cmds[m].admitted
              /\ (GroupOf(cmds[m].event) # <<>> /\ cmds[m].admitted) =>
                    /\ cmds[m].window <= cmds[m].at
                    /\ cmds[m].at < cmds[m].window + plugin.rate_limit_period_seconds
                    /\ Cardinality(AdmittedIn(GroupOf(cmds[m].event), cmds[m].window))
                           <= plugin.rate_limit_max_calls_per_group

\* a group has used its window up and its next command was turned away
C22_Witness ==
    /\ Limiting
    /\ \E m \in Commands :
          /\ cmds[m].checked /\ ~cmds[m].admitted
          /\ Cardinality(AdmittedIn(GroupOf(cmds[m].event), cmds[m].window))
                 = plugin.rate_limit_max_calls_per_group
          /\ rate[GroupOf(cmds[m].event)][2] = plugin.rate_limit_max_calls_per_group

\* what the table holds for group g, absent entries included
RateOf(state, g) == IF g \in DOMAIN state THEN state[g] ELSE << >>

\* the command that the step from this state to the next puts to the limiter
Asked(m) == ~cmds[m].checked /\ cmds'[m].checked

C26_Step ==
    \A m \in Commands : Asked(m) =>
        /\ ~cmds'[m].admitted => rate' = rate
        /\ \A g \in (DOMAIN rate) \cup (DOMAIN rate') :
              g # GroupOf(cmds'[m].event) => RateOf(rate', g) = RateOf(rate, g)

(* C26: a command the limiter rejects leaves the whole rate-limit table    *)
(* unchanged, and a call for one group leaves every other group's window   *)
(* start and count unchanged.                                              *)
C26_RateFrame == [][C26_Step]_vars

\* a command was rejected while another group's entry stood in the table
C26_Witness ==
    /\ Limiting
    /\ \E m \in Commands :
          /\ cmds[m].checked /\ ~cmds[m].admitted
          /\ \E g \in DOMAIN rate : g # GroupOf(cmds[m].event) /\ rate[g][2] > 0

(* C21: the global overriding configuration is fetched and applied at     *)
(* most once in the life of a plugin object, for every interleaving of    *)
(* concurrent commands.                                                    *)
C21_LoadedOnce == plugin.fetches <= 1 /\ plugin.applied <= 1

\* the claim's table of the group filter, for the plugin's mode and list
ExpectedAllowed(event) ==
    LET g == GroupOf(event)
    IN  \/ g = <<>>
        \/ plugin.group_filter_mode = <<"whitelist">>
               /\ Listed(g, plugin.group_filter_list)
        \/ plugin.group_filter_mode = <<"blacklist">>
               /\ ~Listed(g, plugin.group_filter_list)
        \/ plugin.group_filter_mode \notin {<<"whitelist">>, <<"blacklist">>}

\* the command that arrives in the step from this state to the next
Arrives(m) == cmds[m].pc = "new" /\ cmds'[m].pc # "new"

C27_State ==
    \A m \in CmdSlots : cmds[m].pc # "new" =>
        /\ cmds[m].kind \in Kinds
        /\ ~ExpectedAllowed(cmds[m].event) =>
              /\ cmds[m].pc = "done" /\ cmds[m].reply = "none"
              /\ ~cmds[m].checked /\ cmds[m].generations = 0
        /\ ExpectedAllowed(cmds[m].event) => cmds[m].checked
        /\ (cmds[m].checked /\ ~cmds[m].admitted) =>
              /\ cmds[m].pc = "done" /\ cmds[m].reply = "rate_limit"
              /\ cmds[m].generations = 0
        /\ (cmds[m].generations > 0 \/ cmds[m].pc \in {"fetching", "generating"}) =>
              ExpectedAllowed(cmds[m].event) /\ cmds[m].checked /\ cmds[m].admitted

C27_Step ==
    \A m \in CmdSlots :
        (Arrives(m) /\ ~ExpectedAllowed(cmds'[m].event)) => rate' = rate

(* C27: for each of the three commands the generation starts only after   *)
(* the command passed the group filter and then the rate limiter; a       *)
(* command the filter rejects gets no reply, consumes no quota and starts  *)
(* no generation; a command the limiter rejects gets exactly the           *)
(* rate-limit message and starts no generation.                            *)
C27_FilterThenLimiter == []C27_State /\ [][C27_Step]_vars

\* one command was turned away by the limiter while the other generates
C27_Witness ==
    \E m, n \in CmdSlots :
        /\ cmds[m].pc = "done" /\ cmds[m].checked /\ ~cmds[m].admitted
        /\ cmds[m].reply = "rate_limit" /\ cmds[m].kind = "edit"
        /\ cmds[n].pc = "generating" /\ cmds[n].kind = "figure"
        /\ GroupOf(cmds[n].event) = GroupOf(cmds[m].event)

\* the commands of group g admitted in the window the table holds for g
CountedNow(g) ==
    {m \in CmdSlots : /\ cmds[m].checked /\ cmds[m].admitted
                      /\ GroupOf(cmds[m].event) = g /\ cmds[m].window = rate[g][1]}

C30_State ==
    Limiting =>
        /\ \A g \in DOMAIN rate : rate[g][2] = Cardinality(CountedNow(g))
        /\ \A m \in CmdSlots :
              (cmds[m].checked /\ cmds[m].admitted /\ GroupOf(cmds[m].event) # <<>>) =>
                  GroupOf(cmds[m].event) \in DOMAIN rate

C30_Step ==
    Limiting =>
        /\ \A m \in CmdSlots :
              (Arrives(m) /\ cmds'[m].admitted /\ GroupOf(cmds'[m].event) # <<>>) =>
                  LET g == GroupOf(cmds'[m].event)
                      before == IF g \in DOMAIN rate /\ rate[g][1] = rate'[g][1]
                                THEN rate[g][2] ELSE 0
                  IN  rate'[g][2] = before + 1
        /\ (\A m \in CmdSlots : ~Arrives(m)) => rate' = rate

(* C30: with rate limiting enabled, every command of a group that passes  *)
(* the filter and is admitted by the limiter adds exactly one to its      *)
(* group's count, whether it ends with a usage message, a failed          *)
(* generation or an image, and no later step of a command gives the       *)
(* quota back.                                                             *)
C30_QuotaBeforeValidation == []C30_State /\ [][C30_Step]_vars

\* a command that ended with the usage message holds its group's quota
C30_Witness ==
    /\ Limiting
    /\ \E m, n \in CmdSlots :
          /\ cmds[m].pc = "done" /\ cmds[m].reply = "usage" /\ cmds[m].admitted
          /\ GroupOf(cmds[m].event) # <<>>
          /\ rate[GroupOf(cmds[m].event)][2] = 1
          /\ cmds[n].pc = "done" /\ cmds[n].reply = "rate_limit"
          /\ GroupOf(cmds[n].event) = GroupOf(cmds[m].event)

\* status 200 with no choices key or an empty choices list, with any data
MalformedSuccess ==
    {Response("none", 200, JsonBody("dict", choices, NoContent, data, "absent")) :
        choices \in {"absent", "empty"},
        data \in {NoData, DataField("url", UrlText), DataField("b64_json", <<"QQ==">>)}}

\* a non-200 answer of the provider with an error object
ProviderError ==
    Response("none", 500, JsonBody("dict", "absent", NoContent, NoData, "dict"))

\* a step's outcome without the record of which response it handled
Outcome(w) == [w EXCEPT !.c = [w.c EXCEPT !.resp = NoResponse, !.only_non200 = TRUE]]

\* the reference the call is saving came from the data[0] fallback
FromData(c) ==
    /\ c.st # NoImage
    /\ c.st # ExtractFromContent(c.resp.body.content)

BackoffTable(k) ==
    CASE k = 1 -> 2
      [] k = 2 -> 4
      [] k = 3 -> 8
      [] OTHER -> 10

C24_State ==
    \A p \in Calls :
        LET c == calls[p] IN
        /\ c.pc \in {"sleep", "post"} => c.sleeps = c.retry_attempt
        /\ c.retry_attempt = 0 => c.sleeps = 0 /\ c.delay = 0
        /\ c.pc = "sleep" =>
              /\ c.retry_attempt >= 1
              /\ c.delay = BackoffTable(c.retry_attempt)
              /\ c.delay <= 10

C24_Step ==
    \A p \in Calls : calls[p].pc # "idle" => calls'[p].delay >= calls[p].delay

(* C24: no wait precedes attempt 0; before attempt k >= 1 the call waits  *)
(* exactly min(2^k, 10) seconds, that is 2, 4, 8, 10, 10, ...; the wait    *)
(* never exceeds 10 seconds and never decreases from one attempt to the    *)
(* next.                                                                   *)
C24_Backoff == []C24_State /\ [][C24_Step]_vars

\* the call sleeps the capped 10 seconds before its sixth attempt
C24_Witness ==
    /\ calls["c1"].pc = "sleep"
    /\ calls["c1"].retry_attempt = 5
    /\ calls["c1"].delay = 10
    /\ calls["c1"].sleeps = 5

\* the key of call c that a cursor points at
KeyAt(c, index) == c.api_keys[(index % Len(c.api_keys)) + 1]

C25_State ==
    \A p \in Calls :
        LET c == calls[p] IN
        /\ c.pc = "post" => c.sent_key = c.current_key /\ c.current_key # <<>>
        /\ c.pc = "sleep" => c.sent_key = <<>> /\ c.current_key # <<>>

C25_Step ==
    \A p \in Calls :
        /\ (calls[p].pc # "sleep" /\ calls'[p].pc = "sleep") =>
              calls'[p].current_key = KeyAt(calls'[p], api_key_index')
        /\ calls[p].pc = "sleep" =>
              /\ calls'[p].current_key = calls[p].current_key
              /\ calls'[p].pc \in {"sleep", "post"}
              /\ calls'[p].pc = "post" =>
                    /\ calls'[p].sent_key = calls[p].current_key
                    /\ calls'[p].requests = calls[p].requests + 1

(* C25: within an attempt the call reads the current key, then sleeps,    *)
(* then sends; the key it sends in attempt k >= 1 is the key that was      *)
(* current before the sleep, also when another call rotated the cursor     *)
(* during the sleep.                                                       *)
C25_KeyReadBeforeSleep == []C25_State /\ [][C25_Step]_vars

\* a retry was sent with a key the cursor has left, the other call having rotated
C25_Witness ==
    \E p, q \in Calls :
        /\ p # q
        /\ calls[p].pc = "post" /\ calls[p].retry_attempt = 1
        /\ calls[p].rotations = 1
        /\ calls[p].sent_key # KeyAt(calls[p], api_key_index)
        /\ calls[q].rotations >= 1

\* the requests a call may send
RequestBudget(c) == IF c.max_retry_attempts > 0 THEN c.max_retry_attempts ELSE 0

C29_Bounded ==
    \A p \in Calls :
        LET c == calls[p] IN
        /\ c.requests <= RequestBudget(c)
        /\ c.retry_attempt <= RequestBudget(c)
        /\ (c.pc # "idle" /\ c.max_retry_attempts <= 0) =>
              c.pc = "done" /\ c.requests = 0 /\ c.result = NonePair

(* C29: provided each network operation and each sleep completes, every   *)
(* generation call eventually returns; it sends at most                   *)
(* max_retry_attempts requests, and with max_retry_attempts <= 0 it sends  *)
(* none and returns (None, None).                                          *)
C29_Terminates ==
    /\ []C29_Bounded
    /\ \A p \in Calls : (calls[p].pc # "idle") ~> (calls[p].pc = "done")

\* both calls returned, one after using every attempt, one without any
C29_Witness ==
    \E p, q \in Calls :
        /\ calls[p].pc = "done" /\ calls[p].max_retry_attempts = MaxRetry
        /\ calls[p].requests = MaxRetry /\ calls[p].api_keys # <<>>
        /\ calls[q].pc = "done" /\ calls[q].max_retry_attempts <= 0
        /\ calls[q].api_keys # <<>> /\ calls[q].requests = 0

====
